---- MODULE Spec2Model ----
(***************************************************************************)
(* Tool registry and dispatch layer of the YepCode MCP server.             *)
(*                                                                         *)
(* The repository holds two generations of the server class:               *)
(*   "tags" : the tool-selection server (prefix "yc_", tools chosen by     *)
(*            YEPCODE_MCP_TOOLS, process tags passed to the remote);       *)
(*   "flag" : the server with the disableRunCodeTool flag (prefix          *)
(*            "run_ycp_", processes filtered locally by the "mcp-tool"     *)
(*            tag).                                                        *)
(* Both are modelled; the variable `version` says which one is running.    *)
(*                                                                         *)
(* Strings the code inspects character by character (tool names, slugs,    *)
(* ids, the prefix) are sequences of one-character strings, so that        *)
(* length, startsWith and replace are computed and not assumed.            *)
(***************************************************************************)
EXTENDS Integers, Sequences, FiniteSets, TLC

\* ---------------------------------------------------------------- bounds
\* largest number of processes the remote listing holds
MaxProcs == 2
\* largest page size the remote applies when it serves the listing
MaxPageSize == 2

\* ------------------------------------------------------ program constants
\* the 60 of `toolName.length > 60`
MaxToolNameLen == 60
\* `let limit = 100` of the pagination loop
limit == 100

RUN_PROCESS_TOOL_TAG == "mcp-tool"
RUN_CODE_TOOL_TAG == "run_code"
API_TOOL_TAG == "yc_api"
DEFAULT_TOOL_TAGS == {RUN_CODE_TOOL_TAG, RUN_PROCESS_TOOL_TAG}

\* RUN_PROCESS_TOOL_NAME_PREFIX of each server generation
RUN_PROCESS_TOOL_NAME_PREFIX(ver) ==
  IF ver = "tags" THEN <<"y","c","_">>
                  ELSE <<"r","u","n","_","y","c","p","_">>

\* ------------------------------------------------------------ tool names
\* run-code tool names
runCodeToolNames ==
  [ runCode |-> <<"r","u","n","_","c","o","d","e">> ]

\* team-variable tool names
variablesToolNames ==
  [ getVariables |-> <<"g","e","t","_","v","a","r","i","a","b","l","e","s">>,
    createVariable |-> <<"c","r","e","a","t","e","_","v","a","r","i","a","b","l","e">>,
    updateVariable |-> <<"u","p","d","a","t","e","_","v","a","r","i","a","b","l","e">>,
    deleteVariable |-> <<"d","e","l","e","t","e","_","v","a","r","i","a","b","l","e">> ]

\* storage tool names of the tag-selection server
storageToolNames ==
  [ getStorageObjects |-> <<"g","e","t","_","s","t","o","r","a","g","e","_","o","b","j","e","c","t","s">>,
    uploadStorageObject |-> <<"u","p","l","o","a","d","_","s","t","o","r","a","g","e","_","o","b","j","e","c","t">>,
    downloadStorageObject |-> <<"d","o","w","n","l","o","a","d","_","s","t","o","r","a","g","e","_","o","b","j","e","c","t">>,
    deleteStorageObject |-> <<"d","e","l","e","t","e","_","s","t","o","r","a","g","e","_","o","b","j","e","c","t">> ]

\* schedule tool names
schedulesToolNames ==
  [ getSchedules |-> <<"g","e","t","_","s","c","h","e","d","u","l","e","s">>,
    getSchedule |-> <<"g","e","t","_","s","c","h","e","d","u","l","e">>,
    pauseSchedule |-> <<"p","a","u","s","e","_","s","c","h","e","d","u","l","e">>,
    resumeSchedule |-> <<"r","e","s","u","m","e","_","s","c","h","e","d","u","l","e">>,
    deleteSchedule |-> <<"d","e","l","e","t","e","_","s","c","h","e","d","u","l","e">>,
    updateSchedule |-> <<"u","p","d","a","t","e","_","s","c","h","e","d","u","l","e">> ]

\* process CRUD tool names (only the names the server or its catalog uses)
processesToolNames ==
  [ getProcesses |-> <<"g","e","t","_","p","r","o","c","e","s","s","e","s">>,
    createProcess |-> <<"c","r","e","a","t","e","_","p","r","o","c","e","s","s">>,
    getProcess |-> <<"g","e","t","_","p","r","o","c","e","s","s">>,
    updateProcess |-> <<"u","p","d","a","t","e","_","p","r","o","c","e","s","s">>,
    deleteProcess |-> <<"d","e","l","e","t","e","_","p","r","o","c","e","s","s">>,
    getProcessVersions |-> <<"g","e","t","_","p","r","o","c","e","s","s","_","v","e","r","s","i","o","n","s">>,
    executeProcessAsync |-> <<"e","x","e","c","u","t","e","_","p","r","o","c","e","s","s","_","a","s","y","n","c">>,
    executeProcessSync |-> <<"e","x","e","c","u","t","e","_","p","r","o","c","e","s","s","_","s","y","n","c">>,
    scheduleProcess |-> <<"s","c","h","e","d","u","l","e","_","p","r","o","c","e","s","s">> ]

\* execution tool names
executionsToolNames ==
  [ getExecutions |-> <<"g","e","t","_","e","x","e","c","u","t","i","o","n","s">>,
    getExecution |-> <<"g","e","t","_","e","x","e","c","u","t","i","o","n">>,
    killExecution |-> <<"k","i","l","l","_","e","x","e","c","u","t","i","o","n">>,
    rerunExecution |-> <<"r","e","r","u","n","_","e","x","e","c","u","t","i","o","n">>,
    getExecutionLogs |-> <<"g","e","t","_","e","x","e","c","u","t","i","o","n","_","l","o","g","s">> ]

\* module tool names (only the names the server or its catalog uses)
modulesToolNames ==
  [ getModules |-> <<"g","e","t","_","m","o","d","u","l","e","s">>,
    createModule |-> <<"c","r","e","a","t","e","_","m","o","d","u","l","e">>,
    getModule |-> <<"g","e","t","_","m","o","d","u","l","e">>,
    updateModule |-> <<"u","p","d","a","t","e","_","m","o","d","u","l","e">>,
    deleteModule |-> <<"d","e","l","e","t","e","_","m","o","d","u","l","e">>,
    getModuleVersions |-> <<"g","e","t","_","m","o","d","u","l","e","_","v","e","r","s","i","o","n","s">>,
    getModuleVersion |-> <<"g","e","t","_","m","o","d","u","l","e","_","v","e","r","s","i","o","n">>,
    deleteModuleVersion |-> <<"d","e","l","e","t","e","_","m","o","d","u","l","e","_","v","e","r","s","i","o","n">>,
    getModuleAliases |-> <<"g","e","t","_","m","o","d","u","l","e","_","a","l","i","a","s","e","s">> ]

\* environment-variable tool names of the flag server
envVarsToolNames ==
  [ set |-> <<"s","e","t","_","e","n","v","_","v","a","r">>,
    remove |-> <<"r","e","m","o","v","e","_","e","n","v","_","v","a","r">> ]

\* storage tool names of the flag server (list/upload/download/delete)
fileToolNames ==
  [ list |-> <<"l","i","s","t","_","f","i","l","e","s">>,
    upload |-> <<"u","p","l","o","a","d","_","f","i","l","e">>,
    download |-> <<"d","o","w","n","l","o","a","d","_","f","i","l","e">>,
    delete |-> <<"d","e","l","e","t","e","_","f","i","l","e">> ]

\* get_execution tool name of the flag server
getExecutionToolNames ==
  [ getExecution |-> <<"g","e","t","_","e","x","e","c","u","t","i","o","n">> ]

\* ------------------------------------------------------- string helpers
Rep(c, n) == [i \in 1..n |-> c]

Min(a, b) == IF a < b THEN a ELSE b

Range(s) == {s[i] : i \in 1..Len(s)}

\* String.prototype.startsWith
StartsWith(s, p) == Len(p) <= Len(s) /\ SubSeq(s, 1, Len(p)) = p

\* index of the first occurrence of p in s, 0 when there is none
IndexOf(s, p) ==
  LET hits == {i \in 1..(Len(s) - Len(p) + 1) : SubSeq(s, i, i + Len(p) - 1) = p}
  IN IF hits = {} THEN 0 ELSE CHOOSE i \in hits : \A j \in hits : i <= j

\* String.prototype.replace(p, "") : removes the first occurrence of p
ReplaceFirst(s, p) ==
  LET i == IndexOf(s, p)
  IN IF i = 0 THEN s
     ELSE SubSeq(s, 1, i - 1) \o SubSeq(s, i + Len(p), Len(s))

\* ----------------------------------------------------- static catalogs
\* A value a process may carry as its parametersSchema: its JavaScript type,
\* the keys it has when it is an object, and a label that tells two schemas
\* apart.
JsonValue(t, keys, v) == [t |-> t, keys |-> keys, v |-> v]
JsonUndefined == JsonValue("undefined", {}, "")
ZodAny == JsonValue("object", {"_def"}, "z.any().optional()")

\* the `parameters` entry of an input schema: absent, or present with a value
NoParameters == [present |-> FALSE, schema |-> JsonUndefined]
Parameters(schema) == [present |-> TRUE, schema |-> schema]

\* isObject and isEmpty of the utilities
isObject(value) == value.t = "object"

isEmpty(value) ==
  \/ value.t = "null"
  \/ value.t = "undefined"
  \/ value.t = "string" /\ value.v = ""
  \/ isObject(value) /\ Cardinality(value.keys) = 0

\* a tool definition: its name, the id of the process it was derived from
\* (empty for a built-in tool), the `parameters` entry of its input schema
\* and the coding rules its description carries ("-" when it has none)
Builtin(n) ==
  [name |-> n, process |-> << >>, parameters |-> NoParameters,
   codingRules |-> "-"]

storageToolDefinitions ==
  << Builtin(storageToolNames.getStorageObjects),
     Builtin(storageToolNames.uploadStorageObject),
     Builtin(storageToolNames.downloadStorageObject),
     Builtin(storageToolNames.deleteStorageObject) >>

variablesToolDefinitions ==
  << Builtin(variablesToolNames.getVariables),
     Builtin(variablesToolNames.createVariable),
     Builtin(variablesToolNames.updateVariable),
     Builtin(variablesToolNames.deleteVariable) >>

schedulesToolDefinitions ==
  << Builtin(schedulesToolNames.getSchedules),
     Builtin(schedulesToolNames.getSchedule),
     Builtin(schedulesToolNames.pauseSchedule),
     Builtin(schedulesToolNames.resumeSchedule),
     Builtin(schedulesToolNames.deleteSchedule),
     Builtin(schedulesToolNames.updateSchedule) >>

processesToolDefinitions ==
  << Builtin(processesToolNames.getProcesses),
     Builtin(processesToolNames.createProcess),
     Builtin(processesToolNames.getProcess),
     Builtin(processesToolNames.updateProcess),
     Builtin(processesToolNames.deleteProcess),
     Builtin(processesToolNames.executeProcessAsync),
     Builtin(processesToolNames.executeProcessSync),
     Builtin(processesToolNames.scheduleProcess) >>

executionsToolDefinitions ==
  << Builtin(executionsToolNames.getExecutions),
     Builtin(executionsToolNames.getExecution),
     Builtin(executionsToolNames.killExecution),
     Builtin(executionsToolNames.rerunExecution),
     Builtin(executionsToolNames.getExecutionLogs) >>

modulesToolDefinitions ==
  << Builtin(modulesToolNames.getModules),
     Builtin(modulesToolNames.createModule),
     Builtin(modulesToolNames.getModule),
     Builtin(modulesToolNames.updateModule),
     Builtin(modulesToolNames.deleteModule) >>

\* What the two fetches of getCodingRules do: each resolves or raises.
FetchFates == {"ok", "raises"}

\* the text built from the two rule files
CodingRulesText == "Here you can find the general rules for YepCode coding"

\* a getCodingRules whose fetch failures are not caught
getCodingRules_Uncaught(fetch) ==
  IF fetch.js = "raises" \/ fetch.py = "raises"
    THEN [threw |-> TRUE, text |-> ""]
    ELSE [threw |-> FALSE, text |-> CodingRulesText]

\* getCodingRules: the JavaScript rules, then the Python rules; any failure
\* gives the empty text
getCodingRules(fetch) ==
  IF fetch.js = "raises" THEN [threw |-> FALSE, text |-> ""]
  ELSE IF fetch.py = "raises" THEN [threw |-> FALSE, text |-> ""]
  ELSE [threw |-> FALSE, text |-> CodingRulesText]

\* runCodeToolDefinitions(envVars): the run_code definition, its input
\* schema built around the coding rules
runCodeToolDefinitions(fetch) ==
  LET codingRules == getCodingRules(fetch)
  IN [ threw |-> codingRules.threw,
       tools |-> IF codingRules.threw THEN << >>
                 ELSE << [ name |-> runCodeToolNames.runCode,
                           process |-> << >>,
                           parameters |-> NoParameters,
                           codingRules |-> codingRules.text ] >> ]

envVarsToolDefinitions ==
  << Builtin(envVarsToolNames.set), Builtin(envVarsToolNames.remove) >>

fileToolDefinitions ==
  << Builtin(fileToolNames.list), Builtin(fileToolNames.upload),
     Builtin(fileToolNames.download), Builtin(fileToolNames.delete) >>

getExecutionToolDefinitions == << Builtin(getExecutionToolNames.getExecution) >>

\* ------------------------------------------------------ remote processes
\* Process ids are UUIDs: 36 characters.
IdLen == 36
ProcessId(d) == << d >> \o Rep("0", IdLen - 1)

\* The processes the remote may hold: id and slug are fixed per entry, the
\* tags are chosen per listing.  Slugs are lowercase letters, digits and
\* hyphens; their lengths sit at the edges of the 60-character rule of both
\* generations (60 and 61 for the bare slug, 52 and 53 behind "run_ycp_"),
\* and one slug is spelled like the id of another process.
ProcessPool ==
  << [id |-> ProcessId("1"), slug |-> Rep("a", 61)],
     [id |-> ProcessId("2"), slug |-> Rep("b", 60)],
     [id |-> ProcessId("3"), slug |-> Rep("c", 52)],
     [id |-> ProcessId("4"), slug |-> Rep("d", 53)],
     [id |-> ProcessId("5"), slug |-> ProcessId("1")] >>

\* tag sets a process may carry
TagChoices == { {}, {"mcp-tool"}, {"core"} }

\* the pool entries with index in K, in pool order
RECURSIVE PoolListing(_, _, _, _)
PoolListing(K, tg, ps, i) ==
  IF i > Len(ProcessPool) THEN << >>
  ELSE (IF i \in K
          THEN << [id |-> ProcessPool[i].id, slug |-> ProcessPool[i].slug,
                   tags |-> tg[i], parametersSchema |-> ps[i]] >>
          ELSE << >>) \o PoolListing(K, tg, ps, i + 1)

\* every listing the remote may hold: at most MaxProcs distinct processes
\* (processes without a parametersSchema)
RemoteListings ==
  { PoolListing(K, tg, [i \in 1..Len(ProcessPool) |-> JsonUndefined], 1) :
      K \in {S \in SUBSET (1..Len(ProcessPool)) : Cardinality(S) <= MaxProcs},
      tg \in [1..Len(ProcessPool) -> TagChoices] }

\* two parameter schemas of processes
SchemaX ==
  JsonValue("object", {"type", "properties", "required"}, "x: number")
SchemaY == JsonValue("object", {"type", "properties"}, "y: string")

\* what a process may carry as its parametersSchema
ParametersSchemaChoices ==
  {JsonUndefined, JsonValue("object", {}, "{}"), SchemaX, SchemaY}

\* listings of the first three processes of the pool, each tagged
\* "mcp-tool" or untagged and with any parametersSchema
SchemaListings ==
  { PoolListing(K, [i \in 1..Len(ProcessPool) |->
                      IF i \in T THEN {RUN_PROCESS_TOOL_TAG} ELSE {}], ps, 1) :
      K \in {S \in SUBSET (1..3) : Cardinality(S) <= MaxProcs},
      T \in SUBSET (1..3),
      ps \in [1..Len(ProcessPool) -> ParametersSchemaChoices] }

\* A page the remote answers badly: the response is absent, it has no data
\* field, or its data is empty and it is the last page.
NoFault == [page |-> -1, kind |-> "none"]
PageFaults ==
  {NoFault} \cup [page : 0..1, kind : {"absent", "noData", "empty"}]

\* One comma-separated item of an environment variable: its text and the
\* number of blanks around it.
Item(blanks, text) == [blanks |-> blanks, text |-> text]

\* values of YEPCODE_MCP_TOOLS, as the list of their comma-separated items;
\* the empty list is the variable set to the empty string
EnvToolChoices ==
  { << >>,
    << Item(0, RUN_CODE_TOOL_TAG) >>,
    << Item(0, API_TOOL_TAG) >>,
    << Item(0, "core") >>,
    << Item(0, RUN_CODE_TOOL_TAG), Item(1, API_TOOL_TAG), Item(1, "core") >> }

\* values of YEPCODE_MCP_OPTIONS, as the list of their comma-separated items
RUN_CODE_CLEANUP_OPTION == "runCodeCleanup"
EnvOptionChoices ==
  { << >>,
    << Item(0, RUN_CODE_CLEANUP_OPTION) >>,
    << Item(0, "disableRunCodeTool"), Item(0, RUN_CODE_CLEANUP_OPTION) >>,
    << Item(0, "disableRunCodeTool"), Item(1, RUN_CODE_CLEANUP_OPTION) >>,
    << Item(0, "disableRunCodeTool") >> }

\* ----------------------------------------------------------------- state
VARIABLES
  version,             \* the server generation running: "tags", "flag", or
                       \* "registry" (tools registered one by one)
  envTools,            \* YEPCODE_MCP_TOOLS: [present, value], value its items
  envOptions,          \* YEPCODE_MCP_OPTIONS: [present, value]
  clientsOk,           \* the clients of the remote can be constructed (the
                       \* API token is there and valid)
  runCodeCleanup,      \* this.runCodeCleanup
  connected,           \* the entry point has connected the transport
  initErrors,          \* errors the constructor has raised
  tools,               \* this.tools
  disableRunCodeTool,  \* this.disableRunCodeTool
  processes,           \* the remote's process listing
  remotePageSize,      \* page size the remote applies
  pageFault,           \* the page the remote answers badly, if any
  rulesFetch,          \* what the fetches of the coding rules do
  sharedInputSchema,   \* `parameters` entry of the exported RunProcessSchema
                       \* object that registerProcessTool writes to
  catalog,             \* tools returned by the last list-tools request
  pagesRequested,      \* pages asked from the remote by that request
  listed,              \* a list-tools request has been answered
  listError,           \* what the last list-tools request raised, or "none"
  listingsRead,        \* the remote listing the last list-tools request
                       \* read, after the last one read that differed from it
  call,                \* the last call-tool request and its outcome
  runs                 \* the run_code calls in flight, step by step

vars == << version, envTools, envOptions, clientsOk, tools, runCodeCleanup,
           disableRunCodeTool, connected, initErrors, processes,
           remotePageSize, pageFault, rulesFetch, sharedInputSchema, catalog,
           pagesRequested, listed, listError, listingsRead, call, runs >>

\* what the environment and the constructor's options fix
config == << version, envTools, envOptions, clientsOk, tools, runCodeCleanup,
             disableRunCodeTool >>

\* what the start of the entry point leaves
startup == << connected, initErrors >>

\* what the remote holds
remote == << processes, remotePageSize, pageFault, rulesFetch >>

\* what a catalog build leaves
listing ==
  << sharedInputSchema, catalog, pagesRequested, listed, listError,
     listingsRead >>

\* ------------------------------------------------------------- list tools
\* yepCodeApi.getProcesses({page, limit, tags}): the remote keeps the
\* processes that carry one of the tags (all of them when no tags are
\* passed) and serves them in pages of at most `limit` entries.  On the
\* page of `fault` the response is absent, lacks `data`, or is empty.
getProcesses(procs, pageSize, page, lim, tags, fault) ==
  LET Keep(p) == IF tags.present THEN p.tags \cap tags.value # {} ELSE TRUE
      matching == SelectSeq(procs, Keep)
      size == Min(lim, pageSize)
      bad == fault.page = page
  IN [ absent |-> bad /\ fault.kind = "absent",
       hasData |-> ~(bad /\ fault.kind \in {"absent", "noData"}),
       data |-> IF bad THEN << >>
                ELSE SubSeq(matching, page * size + 1,
                            Min((page + 1) * size, Len(matching))),
       hasNextPage |-> ~bad /\ (page + 1) * size < Len(matching) ]

\* a naming without the fallback to the id
toolName_SlugOnly(ver, process) ==
  IF ver = "tags" THEN process.slug
  ELSE RUN_PROCESS_TOOL_NAME_PREFIX(ver) \o process.slug

\* the tool name derived from one process
toolName(ver, process) ==
  LET slugName == IF ver = "tags" THEN process.slug
                  ELSE RUN_PROCESS_TOOL_NAME_PREFIX(ver) \o process.slug
  IN IF Len(slugName) > MaxToolNameLen
       THEN RUN_PROCESS_TOOL_NAME_PREFIX(ver) \o process.id
       ELSE slugName

\* the `parameters` entry of the input schema built for one process:
\* zodToJsonSchema(RunProcessSchema) with the entry set or deleted
inputSchemaParameters(process) ==
  IF ~isEmpty(process.parametersSchema)
    THEN Parameters(process.parametersSchema)
    ELSE NoParameters

\* a tool definition always named after the id
processTool_NamedById(ver, process) ==
  [ name |-> RUN_PROCESS_TOOL_NAME_PREFIX(ver) \o process.id,
    process |-> process.id,
    parameters |-> inputSchemaParameters(process),
    codingRules |-> "-" ]

\* the tool definition derived from one process
processTool(ver, process) ==
  [ name |-> toolName(ver, process), process |-> process.id,
    parameters |-> inputSchemaParameters(process), codingRules |-> "-" ]

\* a page mapped to tools without the filter on the tag
RECURSIVE pageTools_KeepsAll(_, _)
pageTools_KeepsAll(ver, data) ==
  IF data = << >> THEN << >>
  ELSE << processTool(ver, Head(data)) >> \o pageTools_KeepsAll(ver, Tail(data))

\* processes.data.filter(...).map(...): the flag server keeps the processes
\* tagged "mcp-tool", the tags server maps every process of the page
RECURSIVE pageTools(_, _)
pageTools(ver, data) ==
  IF data = << >> THEN << >>
  ELSE (IF ver = "tags" \/ RUN_PROCESS_TOOL_TAG \in Head(data).tags
          THEN << processTool(ver, Head(data)) >>
          ELSE << >>) \o pageTools(ver, Tail(data))

\* a loop that puts the tools of each page in front of what it has
RECURSIVE listLoop_PutsPagesFirst(_, _, _, _, _, _, _)
listLoop_PutsPagesFirst(ver, tl, procs, pageSize, fault, page, acc) ==
  LET response == getProcesses(procs, pageSize, page, limit,
                    IF ver = "tags" THEN [present |-> TRUE, value |-> tl]
                                    ELSE [present |-> FALSE, value |-> {}],
                    fault)
      asked == Append(acc.pages, page)
  IN IF response.absent
       THEN [tools |-> acc.tools, pages |-> asked, failed |-> TRUE]
     ELSE IF ~response.hasData
       THEN [tools |-> acc.tools, pages |-> asked, failed |-> FALSE]
     ELSE LET grown == pageTools(ver, response.data) \o acc.tools
          IN IF ~response.hasNextPage
               THEN [tools |-> grown, pages |-> asked, failed |-> FALSE]
               ELSE listLoop_PutsPagesFirst(ver, tl, procs, pageSize, fault,
                      page + 1, [tools |-> grown, pages |-> asked])

\* the `while (true)` loop over the pages, from `page` on; reading `data`
\* of an absent response raises a TypeError
RECURSIVE listLoop(_, _, _, _, _, _, _)
listLoop(ver, tl, procs, pageSize, fault, page, acc) ==
  LET response == getProcesses(procs, pageSize, page, limit,
                    IF ver = "tags" THEN [present |-> TRUE, value |-> tl]
                                    ELSE [present |-> FALSE, value |-> {}],
                    fault)
      asked == Append(acc.pages, page)
  IN IF response.absent
       THEN [tools |-> acc.tools, pages |-> asked, failed |-> TRUE]
     ELSE IF ~response.hasData
       THEN [tools |-> acc.tools, pages |-> asked, failed |-> FALSE]
     ELSE LET grown == acc.tools \o pageTools(ver, response.data)
          IN IF ~response.hasNextPage
               THEN [tools |-> grown, pages |-> asked, failed |-> FALSE]
               ELSE listLoop(ver, tl, procs, pageSize, fault, page + 1,
                             [tools |-> grown, pages |-> asked])

\* the built-in part of the catalog
builtinTools(ver, tl, disabled, fetch) ==
  LET runCode == runCodeToolDefinitions(fetch)
      withRunCode == IF ver = "tags" THEN RUN_CODE_TOOL_TAG \in tl
                     ELSE ~disabled
      others ==
        IF ver = "tags"
          THEN (IF API_TOOL_TAG \in tl
                  THEN storageToolDefinitions \o variablesToolDefinitions
                       \o schedulesToolDefinitions \o processesToolDefinitions
                       \o executionsToolDefinitions \o modulesToolDefinitions
                  ELSE << >>)
          ELSE envVarsToolDefinitions \o fileToolDefinitions
               \o getExecutionToolDefinitions
  IN IF withRunCode
       THEN [threw |-> runCode.threw, tools |-> others \o runCode.tools]
       ELSE [threw |-> FALSE, tools |-> others]

\* registerProcessTool: the input schema is the exported RunProcessSchema
\* object itself; its `parameters` entry is set or deleted in place and the
\* tool is registered with that object
registerProcessTool(shared, process) ==
  [ shared |-> inputSchemaParameters(process),
    tool |-> [name |-> toolName("registry", process),
              process |-> process.id] ]

\* forEach over the processes of a page that carry the "mcp-tool" tag
RECURSIVE registerPage(_, _)
registerPage(data, acc) ==
  IF data = << >> THEN acc
  ELSE IF RUN_PROCESS_TOOL_TAG \in Head(data).tags
    THEN LET done == registerProcessTool(acc.shared, Head(data))
         IN registerPage(Tail(data),
              [shared |-> done.shared,
               registered |-> Append(acc.registered, done.tool)])
    ELSE registerPage(Tail(data), acc)

\* registerProcessesTools: the same loop over the pages
RECURSIVE registerProcessesTools(_, _, _, _, _)
registerProcessesTools(procs, pageSize, fault, page, acc) ==
  LET response == getProcesses(procs, pageSize, page, limit,
                               [present |-> FALSE, value |-> {}], fault)
      asked == Append(acc.pages, page)
  IN IF response.absent
       THEN [shared |-> acc.shared, registered |-> acc.registered,
             pages |-> asked, failed |-> TRUE]
     ELSE IF ~response.hasData
       THEN [shared |-> acc.shared, registered |-> acc.registered,
             pages |-> asked, failed |-> FALSE]
     ELSE LET grown == registerPage(response.data,
                         [shared |-> acc.shared, registered |-> acc.registered])
          IN IF ~response.hasNextPage
               THEN [shared |-> grown.shared, registered |-> grown.registered,
                     pages |-> asked, failed |-> FALSE]
               ELSE registerProcessesTools(procs, pageSize, fault, page + 1,
                      [shared |-> grown.shared,
                       registered |-> grown.registered, pages |-> asked])

\* the catalog of the registered tools: each is listed with the input schema
\* object it was registered with, as that object is when the list is made
registeredCatalog(registered, shared) ==
  [ i \in DOMAIN registered |->
      [ name |-> registered[i].name, process |-> registered[i].process,
        parameters |-> shared, codingRules |-> "-" ] ]

\* the listings read so far, after one more request has read `procs`
read(sofar, procs) ==
  IF sofar = << >> THEN << procs >>
  ELSE IF sofar[Len(sofar)] = procs THEN sofar
  ELSE << sofar[Len(sofar)], procs >>

\* a handler that answers with the catalog of its first build
ListToolsOfServer_Cached ==
  LET builtin == builtinTools(version, tools, disableRunCodeTool, rulesFetch)
      built == listLoop(version, tools, processes, remotePageSize, pageFault,
                 0, [tools |-> builtin.tools, pages |-> << >>])
      failed == builtin.threw \/ built.failed
  IN /\ connected
     /\ version \in {"tags", "flag"}
     /\ catalog' = IF failed THEN << >>
                   ELSE IF listed THEN catalog ELSE built.tools
     /\ pagesRequested' = IF builtin.threw THEN << >> ELSE built.pages
     /\ listed' = ~failed
     /\ listError' = IF builtin.threw THEN "FetchError"
                     ELSE IF built.failed THEN "TypeError" ELSE "none"
     /\ listingsRead' = read(listingsRead, processes)
     /\ UNCHANGED sharedInputSchema
     /\ UNCHANGED << config, startup, remote, call, runs >>

\* the ListTools request handler of the two servers; what it raises fails
\* the request
ListToolsOfServer ==
  LET builtin == builtinTools(version, tools, disableRunCodeTool, rulesFetch)
      built == listLoop(version, tools, processes, remotePageSize, pageFault,
                 0, [tools |-> builtin.tools, pages |-> << >>])
      failed == builtin.threw \/ built.failed
  IN /\ connected
     /\ version \in {"tags", "flag"}
     /\ catalog' = IF failed THEN << >> ELSE built.tools
     /\ pagesRequested' = IF builtin.threw THEN << >> ELSE built.pages
     /\ listed' = ~failed
     /\ listError' = IF builtin.threw THEN "FetchError"
                     ELSE IF built.failed THEN "TypeError" ELSE "none"
     /\ listingsRead' = read(listingsRead, processes)
     /\ UNCHANGED sharedInputSchema
     /\ UNCHANGED << config, startup, remote, call, runs >>

\* the catalog build of the registry: register the process tools, then list
\* what is registered
RegisterAndListTools ==
  LET built == registerProcessesTools(processes, remotePageSize, pageFault, 0,
                 [shared |-> sharedInputSchema, registered |-> << >>,
                  pages |-> << >>])
  IN /\ connected
     /\ version = "registry"
     /\ sharedInputSchema' = built.shared
     /\ catalog' = IF built.failed THEN << >>
                   ELSE registeredCatalog(built.registered, built.shared)
     /\ pagesRequested' = built.pages
     /\ listed' = ~built.failed
     /\ listError' = IF built.failed THEN "TypeError" ELSE "none"
     /\ listingsRead' = read(listingsRead, processes)
     /\ UNCHANGED << config, startup, remote, call, runs >>

\* a list-tools request to one of the two servers
ListTools == ListToolsOfServer

\* ------------------------------------------------------ request arguments
\* A JSON value is [t, v]: its type and a printable value.  Arguments are a
\* record over ArgFields; a key the caller did not send is Undef.
Undef == [t |-> "undefined", v |-> ""]
Str(x) == [t |-> "string", v |-> x]
Bool(x) == [t |-> "boolean", v |-> x]
Obj(x) == [t |-> "object", v |-> x]

ArgFields ==
  { "code", "options", "parameters", "synchronousExecution", "id",
    "identifier", "key", "value", "filename", "content", "name",
    "processId", "moduleId", "versionId", "programmingLanguage",
    "sourceCode", "language", "executionId", "tag", "comment",
    "status", "type" }

Args(given) ==
  [f \in ArgFields |-> IF f \in DOMAIN given THEN given[f] ELSE Undef]

\* the arguments a client sends in this model
ArgsPool ==
  { Args([f \in {} |-> Undef]),
    Args([code |-> Str("return 1"), options |-> Obj("{}")]),
    Args([code |-> Str("return 1")]),
    Args([id |-> Str("x1")]),
    Args([synchronousExecution |-> Bool("false")]),
    Args([synchronousExecution |-> Str("no")]) }

\* --------------------------------------------------------------- schemas
\* A schema maps a field to [type, required].  Optional fields that no
\* request of ArgsPool can set are left out: they never decide a parse.
Req(type) == [type |-> type, required |-> TRUE]
Opt(type) == [type |-> type, required |-> FALSE]


RunCodeSchema == [code |-> Req("string"), options |-> Req("object")]
RunProcessSchema ==
  [ parameters |-> Opt("any"), options |-> Opt("object"),
    synchronousExecution |-> Opt("boolean") ]
\* schemas of the variables tools
variablesSchemas ==
  [ GetVariablesSchema |->
      [f \in {} |-> Undef],
    CreateVariableSchema |->
      [key |-> Req("string"), value |-> Req("string")],
    UpdateVariableSchema |->
      [id |-> Req("string"), value |-> Opt("string")],
    DeleteVariableSchema |->
      [id |-> Req("string")] ]

\* schemas of the storage tools
storageSchemas ==
  [ GetStorageObjectsSchema |->
      [f \in {} |-> Undef],
    UploadStorageObjectSchema |->
      [filename |-> Req("string"), content |-> Req("content")],
    DownloadStorageObjectSchema |->
      [filename |-> Req("string")],
    DeleteStorageObjectSchema |->
      [filename |-> Req("string")] ]

\* schemas of the schedules tools
schedulesSchemas ==
  [ GetSchedulesSchema |->
      [processId |-> Opt("string")],
    GetScheduleSchema |->
      [id |-> Req("string")],
    PauseScheduleSchema |->
      [id |-> Req("string")],
    ResumeScheduleSchema |->
      [id |-> Req("string")],
    DeleteScheduleSchema |->
      [id |-> Req("string")] ]

\* schemas of the processes tools
processesSchemas ==
  [ GetProcessesSchema |->
      [f \in {} |-> Undef],
    CreateProcessSchema |->
      [ name |-> Req("string"), programmingLanguage |-> Req("string"), sourceCode |-> Req("string") ],
    GetProcessSchema |->
      [identifier |-> Req("string")],
    UpdateProcessSchema |->
      [ identifier |-> Req("string"), name |-> Opt("string"), sourceCode |-> Opt("string") ],
    DeleteProcessSchema |->
      [identifier |-> Req("string")],
    GetProcessVersionsSchema |->
      [processId |-> Req("string")],
    ExecuteProcessAsyncSchema |->
      [ identifier |-> Req("string"), parameters |-> Opt("any"),
        tag |-> Opt("string"), comment |-> Opt("string") ],
    ExecuteProcessSyncSchema |->
      [ identifier |-> Req("string"), parameters |-> Opt("any"),
        tag |-> Opt("string"), comment |-> Opt("string") ],
    ScheduleProcessSchema |->
      [identifier |-> Req("string")] ]

\* schemas of the executions tools
executionsSchemas ==
  [ GetExecutionsSchema |->
      [processId |-> Opt("string"), status |-> Opt("status")],
    GetExecutionSchema |->
      [id |-> Req("string")],
    KillExecutionSchema |->
      [id |-> Req("string")],
    RerunExecutionSchema |->
      [id |-> Req("string")],
    GetExecutionLogsSchema |->
      [id |-> Req("string")] ]

\* schemas of the modules tools
modulesSchemas ==
  [ GetModulesSchema |->
      [f \in {} |-> Undef],
    CreateModuleSchema |->
      [ name |-> Req("string"), code |-> Req("string"), language |-> Req("string") ],
    GetModuleSchema |->
      [id |-> Req("string")],
    DeleteModuleSchema |->
      [id |-> Req("string")],
    GetModuleVersionsSchema |->
      [moduleId |-> Req("string")],
    GetModuleVersionSchema |->
      [moduleId |-> Req("string"), versionId |-> Req("string")],
    DeleteModuleVersionSchema |->
      [moduleId |-> Req("string"), versionId |-> Req("string")],
    GetModuleAliasesSchema |->
      [moduleId |-> Req("string")] ]

\* schemas of the environment variable tools
envVarsSchemas ==
  [ SetEnvVarSchema |->
      [key |-> Req("string"), value |-> Req("string")],
    RemoveEnvVarSchema |->
      [key |-> Req("string")] ]

\* schemas of the file tools
fileSchemas ==
  [ ListObjectsSchema |->
      [f \in {} |-> Undef],
    UploadObjectSchema |->
      [filename |-> Req("string"), content |-> Req("content")],
    DownloadObjectSchema |->
      [filename |-> Req("string")],
    DeleteObjectSchema |->
      [filename |-> Req("string")] ]

\* schema of get_execution in the run_ycp_ server
GetExecutionByIdSchema == [executionId |-> Req("string")]

\* one value against one field type
typeOk(type, val) ==
  \/ type = "any"
  \/ /\ type = "status"
     /\ val.t = "string"
     /\ val.v \in {"CREATED", "RUNNING", "FINISHED", "KILLED", "REJECTED",
                   "ERROR"}
  \/ type = "content" /\ val.t \in {"string", "object"}
  \/ type = val.t

\* a parse that checks the types of the fields sent and nothing else
safeParse_IgnoresRequired(schema, args) ==
  \A f \in DOMAIN schema :
    args[f].t = "undefined" \/ typeOk(schema[f].type, args[f])

\* schema.safeParse(arguments).success
safeParse(schema, args) ==
  \A f \in DOMAIN schema :
    IF args[f].t = "undefined" THEN ~schema[f].required
    ELSE typeOk(schema[f].type, args[f])

\* inputSchema of the tool definitions of the executions and processes
\* tools that the requests of this model name: the fields it marks required
\* and the values it lists for `status`
inputSchemas ==
  << [ name |-> executionsToolNames.getExecutions, required |-> {},
       status |-> {"CREATED", "QUEUED", "DEQUEUED", "RUNNING", "FINISHED",
                   "KILLED", "REJECTED", "ERROR"} ],
     [ name |-> executionsToolNames.getExecution, required |-> {"id"},
       status |-> {} ],
     [ name |-> processesToolNames.getProcess, required |-> {"identifier"},
       status |-> {} ],
     [ name |-> processesToolNames.scheduleProcess,
       required |-> {"identifier", "type"}, status |-> {} ] >>

\* ------------------------------------------------- the switch of CallTool
Case(n, schema, op) == [name |-> n, schema |-> schema, op |-> op]

\* `case` labels of the switch, with the schema each passes to
\* handleToolRequest and the remote operation its handler awaits ("-" for
\* the handlers that throw without a remote call)
switchCases(ver) ==
  IF ver = "tags" THEN
    << Case(runCodeToolNames.runCode, RunCodeSchema, "run"),
       Case(variablesToolNames.getVariables,
            variablesSchemas.GetVariablesSchema, "getVariables"),
       Case(variablesToolNames.createVariable,
            variablesSchemas.CreateVariableSchema, "createVariable"),
       Case(variablesToolNames.updateVariable,
            variablesSchemas.UpdateVariableSchema, "updateVariable"),
       Case(variablesToolNames.deleteVariable,
            variablesSchemas.DeleteVariableSchema, "deleteVariable"),
       Case(storageToolNames.getStorageObjects,
            storageSchemas.GetStorageObjectsSchema, "getObjects"),
       Case(storageToolNames.uploadStorageObject,
            storageSchemas.UploadStorageObjectSchema, "createObject"),
       Case(storageToolNames.downloadStorageObject,
            storageSchemas.DownloadStorageObjectSchema, "getObject"),
       Case(storageToolNames.deleteStorageObject,
            storageSchemas.DeleteStorageObjectSchema, "deleteObject"),
       Case(schedulesToolNames.getSchedules,
            schedulesSchemas.GetSchedulesSchema, "getSchedules"),
       Case(schedulesToolNames.getSchedule,
            schedulesSchemas.GetScheduleSchema, "getSchedule"),
       Case(schedulesToolNames.pauseSchedule,
            schedulesSchemas.PauseScheduleSchema, "pauseSchedule"),
       Case(schedulesToolNames.resumeSchedule,
            schedulesSchemas.ResumeScheduleSchema, "resumeSchedule"),
       Case(schedulesToolNames.deleteSchedule,
            schedulesSchemas.DeleteScheduleSchema, "deleteSchedule"),
       Case(processesToolNames.getProcesses,
            processesSchemas.GetProcessesSchema, "getProcesses"),
       Case(processesToolNames.createProcess,
            processesSchemas.CreateProcessSchema, "createProcess"),
       Case(processesToolNames.getProcess,
            processesSchemas.GetProcessSchema, "getProcess"),
       Case(processesToolNames.updateProcess,
            processesSchemas.UpdateProcessSchema, "updateProcess"),
       Case(processesToolNames.deleteProcess,
            processesSchemas.DeleteProcessSchema, "deleteProcess"),
       Case(processesToolNames.getProcessVersions,
            processesSchemas.GetProcessVersionsSchema, "getProcessVersions"),
       Case(processesToolNames.executeProcessAsync,
            processesSchemas.ExecuteProcessAsyncSchema, "executeProcessAsync"),
       Case(processesToolNames.executeProcessSync,
            processesSchemas.ExecuteProcessSyncSchema, "executeProcessSync"),
       Case(processesToolNames.scheduleProcess,
            processesSchemas.ScheduleProcessSchema, "createSchedule"),
       Case(executionsToolNames.getExecutions,
            executionsSchemas.GetExecutionsSchema, "getExecutions"),
       Case(executionsToolNames.getExecution,
            executionsSchemas.GetExecutionSchema, "getExecution"),
       Case(executionsToolNames.killExecution,
            executionsSchemas.KillExecutionSchema, "killExecution"),
       Case(executionsToolNames.rerunExecution,
            executionsSchemas.RerunExecutionSchema, "rerunExecution"),
       Case(executionsToolNames.getExecutionLogs,
            executionsSchemas.GetExecutionLogsSchema, "getExecutionLogs"),
       Case(modulesToolNames.getModules,
            modulesSchemas.GetModulesSchema, "getModules"),
       Case(modulesToolNames.createModule,
            modulesSchemas.CreateModuleSchema, "createModule"),
       Case(modulesToolNames.getModule,
            modulesSchemas.GetModuleSchema, "getModule"),
       Case(modulesToolNames.deleteModule,
            modulesSchemas.DeleteModuleSchema, "deleteModule"),
       Case(modulesToolNames.getModuleVersions,
            modulesSchemas.GetModuleVersionsSchema, "getModuleVersions"),
       Case(modulesToolNames.getModuleVersion,
            modulesSchemas.GetModuleVersionSchema, "-"),
       Case(modulesToolNames.deleteModuleVersion,
            modulesSchemas.DeleteModuleVersionSchema, "-"),
       Case(modulesToolNames.getModuleAliases,
            modulesSchemas.GetModuleAliasesSchema, "-") >>
  ELSE
    << Case(runCodeToolNames.runCode, RunCodeSchema, "run"),
       Case(envVarsToolNames.set, envVarsSchemas.SetEnvVarSchema, "setEnvVar"),
       Case(envVarsToolNames.remove,
            envVarsSchemas.RemoveEnvVarSchema, "delEnvVar"),
       Case(getExecutionToolNames.getExecution,
            GetExecutionByIdSchema, "waitForDone"),
       Case(fileToolNames.list, fileSchemas.ListObjectsSchema, "getObjects"),
       Case(fileToolNames.upload,
            fileSchemas.UploadObjectSchema, "createObject"),
       Case(fileToolNames.download,
            fileSchemas.DownloadObjectSchema, "getObject"),
       Case(fileToolNames.delete,
            fileSchemas.DeleteObjectSchema, "deleteObject") >>

\* the names that have a `case` label
caseNames(ver) == {c.name : c \in Range(switchCases(ver))}

\* the `case` a name selects
caseOf(ver, n) == CHOOSE c \in Range(switchCases(ver)) : c.name = n

\* ------------------------------------------------------ handler outcomes
\* What a remote call does is the remote's choice (`fate`):
\*   "ok"    it resolves,
\*   "error" it rejects with an Error,
\*   "value" it rejects with a value that is not an Error.
Fates == {"ok", "error", "value"}

\* execution ids the remote may assign
ExecutionIds == {"e1", "e2"}

RemoteError ==
  [ isError |-> TRUE, message |-> "remote call failed",
    stack |-> "Error: remote call failed\n    at YepCodeApi.request" ]
RemoteValue == [isError |-> FALSE, message |-> "", stack |-> ""]
NotAvailableError ==
  [ isError |-> TRUE, message |-> "method not available in YepCodeApi",
    stack |-> "Error: method not available in YepCodeApi\n    at handler" ]
NoError == [isError |-> FALSE, message |-> "-", stack |-> "-"]

\* the options object of a submission: the keys the server can set in it
SubmitOptions(tag, comment, options) ==
  [ tag |-> tag, comment |-> comment, options |-> options,
    initiatedBy |-> Str("@yepcode/mcp-server") ]

\* one call of the remote API; `parameters` and `options` are the second
\* and third argument of a submission
RemoteCall(op, target, executionId) ==
  [ op |-> op, target |-> target, executionId |-> executionId,
    removeOnDone |-> "-",
    parameters |-> Undef, options |-> SubmitOptions(Undef, Undef, Undef) ]

Returned(result, calls) ==
  [threw |-> FALSE, error |-> NoError, result |-> result, remoteCalls |-> calls]
Threw(error, calls) ==
  [threw |-> TRUE, error |-> error, result |-> [none |-> Undef],
   remoteCalls |-> calls]

thrownBy(fate) == IF fate = "error" THEN RemoteError ELSE RemoteValue

\* the remote knows a process by its id or by its slug
knownProcess(procs, identifier) ==
  \E p \in Range(procs) : p.id = identifier \/ p.slug = identifier

\* ------------------------------------------------------------ executions
Num(x) == [t |-> "number", v |-> x]
Arr(x) == [t |-> "array", v |-> x]

\* JSON.stringify(value, null, 2): the text that carries the keys of `value`
\* whose value is not undefined
JSONstringify(value) ==
  [ json |-> [ k \in {j \in DOMAIN value : value[j].t # "undefined"} |->
                 value[k] ] ]

\* JavaScript truthiness of a value, as `value && {...}` tests it
truthy(value) ==
  ~ \/ value.t \in {"undefined", "null"}
    \/ value.t = "number" /\ value.v = "0"
    \/ value.t = "string" /\ value.v = ""
    \/ value.t = "boolean" /\ value.v = "false"

\* What the remote does with one execution: the log lines it emits, in
\* order, the terminal status it reaches with a return value or an error
\* message, and the stage it is in when it is read without waiting (0 just
\* created, 1 running, 2 done).
Execution(logs, status, returnValue, error, stage) ==
  [ logs |-> logs, status |-> status, returnValue |-> returnValue,
    error |-> error, stage |-> stage, processId |-> Str("p1") ]

\* the executions of the model: zero to two log lines in either order, each
\* way an execution ends (status, return value, error message), each stage
Executions ==
  { Execution(l, e[1], e[2], e[3], k) :
      l \in { << >>, << Str("L1") >>, << Str("L1"), Str("L2") >>,
              << Str("L2"), Str("L1") >> },
      e \in { << "FINISHED", Num("1"), Undef >>,
              << "FINISHED", Num("0"), Undef >>,
              << "FINISHED", Undef, Undef >>,
              << "ERROR", Undef, Str("boom") >>,
              << "KILLED", Undef, Undef >>,
              << "REJECTED", Undef, Undef >> },
      k \in 0..2 }

\* an execution with nothing in it, for the calls that are about none
PlainExecution == Execution(<< >>, "FINISHED", Num("1"), Undef, 2)

\* the execution the remote holds under another id
UnrelatedExecution ==
  Execution(<< Str("other") >>, "FINISHED", Str("unrelated"), Undef, 2)

\* the executions of the remote by id, when it has stored `execution`
\* under `executionId`
remoteExecutions(executionId, execution) ==
  [ id \in ExecutionIds |->
      IF id = executionId THEN execution ELSE UnrelatedExecution ]

\* what the remote holds of an execution at one stage of its life
snapshot(execution, stage) ==
  IF stage = 0
    THEN [ status |-> "CREATED", logs |-> << >>,
           timeline |-> << Str("CREATED") >>,
           returnValue |-> Undef, error |-> Undef,
           processId |-> execution.processId ]
  ELSE IF stage = 1
    THEN [ status |-> "RUNNING",
           logs |-> SubSeq(execution.logs, 1, Min(1, Len(execution.logs))),
           timeline |-> << Str("CREATED"), Str("RUNNING") >>,
           returnValue |-> Undef, error |-> Undef,
           processId |-> execution.processId ]
  ELSE [ status |-> execution.status, logs |-> execution.logs,
         timeline |-> << Str("CREATED"), Str("RUNNING"),
                         Str(execution.status) >>,
         returnValue |-> execution.returnValue, error |-> execution.error,
         processId |-> execution.processId ]

\* execution.waitForDone(): the handle once the remote reports a terminal
\* status
waitForDone(execution) == snapshot(execution, 2)

\* yepCodeApi.getExecution(id): the execution as the remote holds it now
getExecution(executionId, execution) ==
  LET now == snapshot(execution, execution.stage)
  IN [ id |-> Str(executionId), processId |-> now.processId,
       status |-> Str(now.status), timeline |-> Arr(now.timeline),
       returnValue |-> now.returnValue, error |-> now.error ]

\* this.executionResult(executionId): wait for the terminal status, then
\* report the fields of the handle
executionResult(executionId, executions) ==
  LET execution == waitForDone(executions[executionId])
  IN [ executionId |-> Str(executionId),
       logs |-> Arr(execution.logs),
       processId |-> execution.processId,
       status |-> Str(execution.status),
       timeline |-> Arr(execution.timeline),
       returnValue |-> IF truthy(execution.returnValue)
                         THEN execution.returnValue ELSE Undef,
       error |-> IF truthy(execution.error) THEN execution.error ELSE Undef ]

\* a handler that waits for every execution it submits
processHandler_AlwaysWaits(procs, processId, data, fate, eid, execution) ==
  LET submit ==
        [ RemoteCall("executeProcessAsync", processId, "") EXCEPT
            !.parameters = data.parameters,
            !.options = SubmitOptions(Undef, Undef, data.options) ]
  IN IF fate # "ok" \/ ~knownProcess(procs, processId)
       THEN Threw(IF fate = "value" THEN RemoteValue ELSE RemoteError,
                  << submit >>)
       ELSE Returned(executionResult(eid, remoteExecutions(eid, execution)),
                     << submit, RemoteCall("waitForDone", << >>, eid) >>)

\* the handler of a process tool: submit, then wait unless asynchronous;
\* `eid` is the executionId the submission resolves to
processHandler(procs, processId, data, fate, eid, execution) ==
  LET submit ==
        [ RemoteCall("executeProcessAsync", processId, "") EXCEPT
            !.parameters = data.parameters,
            !.options = SubmitOptions(Undef, Undef, data.options) ]
      synchronousExecution ==
        IF data.synchronousExecution.t = "undefined" THEN TRUE
        ELSE data.synchronousExecution.v = "true"
  IN IF fate # "ok" \/ ~knownProcess(procs, processId)
       THEN Threw(IF fate = "value" THEN RemoteValue ELSE RemoteError,
                  << submit >>)
       ELSE IF ~synchronousExecution
         THEN Returned([executionId |-> Str(eid)], << submit >>)
         ELSE Returned(executionResult(eid, remoteExecutions(eid, execution)),
                       << submit, RemoteCall("waitForDone", << >>, eid) >>)

\* ------------------------------------------------------------- run_code
\* the events the run delivers to its callbacks: one per log line, in
\* order, then the terminal one
Event(kind, payload) == [kind |-> kind, payload |-> payload]

eventsOf(execution) ==
  [ i \in 1..Len(execution.logs) |-> Event("log", execution.logs[i]) ]
  \o << IF execution.status = "FINISHED"
          THEN Event("finish", execution.returnValue)
          ELSE Event("error", execution.error) >>

\* what the callbacks of the handler write to
NoneCollected ==
  [logs |-> << >>, executionError |-> Undef, returnValue |-> Undef]

\* an onLog that puts the newest line first
onLog_Prepends(collected, log) ==
  [collected EXCEPT !.logs = << log >> \o @]

\* onLog: logs.push(log)
onLog(collected, log) == [collected EXCEPT !.logs = Append(@, log)]

\* an onError that starts the logs afresh
onError_DropsLogs(collected, error) ==
  [collected EXCEPT !.executionError = error, !.logs = << >>]

\* onError: executionError = error.message
onError(collected, error) == [collected EXCEPT !.executionError = error]

\* onFinish: returnValue = value
onFinish(collected, value) == [collected EXCEPT !.returnValue = value]

\* the callbacks, called with the events in the order they arrive
RECURSIVE deliver(_, _, _)
deliver(events, i, collected) ==
  IF i > Len(events) THEN collected
  ELSE LET e == events[i]
       IN deliver(events, i + 1,
            IF e.kind = "log" THEN onLog(collected, e.payload)
            ELSE IF e.kind = "error" THEN onError(collected, e.payload)
            ELSE onFinish(collected, e.payload))

\* options of a run_code request that set removeOnDone themselves
OptionsRemoveOnDone == Obj("{removeOnDone: true}")

\* { removeOnDone: this.runCodeCleanup, ...options }.removeOnDone
removeOnDone(cleanup, options) ==
  IF options = OptionsRemoveOnDone THEN TRUE ELSE cleanup

\* the call to yepCodeRun.run, with what it asks about the source
RunCall(remove) ==
  [ op |-> "run", target |-> << >>, executionId |-> "",
    removeOnDone |-> IF remove THEN "true" ELSE "false" ]

\* { logs, returnValue, ...(executionError && { error: executionError }) }
runCodeResult(collected) ==
  [ logs |-> Arr(collected.logs),
    returnValue |-> collected.returnValue,
    error |-> IF truthy(collected.executionError)
                THEN collected.executionError ELSE Undef ]

\* the handler of the run_code case
runCodeHandler(data, cleanup, fate, execution) ==
  LET run == RunCall(removeOnDone(cleanup, data.options))
      collected == deliver(eventsOf(execution), 1, NoneCollected)
  IN IF fate # "ok" THEN Threw(thrownBy(fate), << run >>)
     ELSE Returned(runCodeResult(collected), << run >>)

\* ------------------------------------------- run_code calls, step by step
\* Two run_code calls may be in flight at once.  Each is at one of: not
\* started, running (the run was submitted, `delivered` of its events have
\* been given to its callbacks), returned (with `result`).
RunIds == {1, 2}

\* the executions of the calls in flight
RunChoices ==
  { Execution(l, e[1], e[2], e[3], 2) :
      l \in { << >>, << Str("L1"), Str("L2") >>, << Str("L3") >> },
      e \in { << "FINISHED", Num("1"), Undef >>,
              << "FINISHED", Num("2"), Undef >>,
              << "ERROR", Undef, Str("boom") >> } }

NoRun ==
  [ phase |-> "idle", execution |-> PlainExecution, delivered |-> 0,
    collected |-> NoneCollected,
    result |-> JSONstringify(runCodeResult(NoneCollected)) ]

\* callbacks that all write to the variables of the first call
closureOf_Shared(c) == 1

\* the variables `logs`, `executionError` and `returnValue` the callbacks of
\* call c close over: those its own invocation of the handler declared
closureOf(c) == c

\* the handler is entered: it declares its variables and submits the run
StartRunCode(c) ==
  /\ connected
  /\ runs[c].phase = "idle"
  /\ \E execution \in RunChoices :
       runs' = [ [runs EXCEPT ![c].phase = "running",
                             ![c].execution = execution]
                   EXCEPT ![closureOf(c)].collected = NoneCollected ]
  /\ UNCHANGED << config, startup, remote, listing, call >>

\* the run gives its next event to the callback of the call
DeliverEvent(c) ==
  LET events == eventsOf(runs[c].execution)
      written == runs[closureOf(c)].collected
  IN /\ runs[c].phase = "running"
     /\ runs[c].delivered < Len(events)
     /\ runs' = [ [runs EXCEPT ![c].delivered = @ + 1]
                     EXCEPT ![closureOf(c)].collected =
                       deliver(<< events[runs[c].delivered + 1] >>, 1,
                               written) ]
     /\ UNCHANGED << config, startup, remote, listing, call >>

\* the handler returns what its variables hold: the servers await
\* execution.waitForDone(), which resolves after the terminal event; the
\* registered tool calls waitForDone() without awaiting it and returns as
\* soon as the run is submitted
ReturnRunCode(c) ==
  /\ runs[c].phase = "running"
  /\ version \in {"tags", "flag"} =>
       runs[c].delivered = Len(eventsOf(runs[c].execution))
  /\ runs' = [ runs EXCEPT
                 ![c].phase = "returned",
                 ![c].result =
                   JSONstringify(runCodeResult(runs[closureOf(c)].collected)) ]
  /\ UNCHANGED << config, startup, remote, listing, call >>


\* the handler of the get_execution case
getExecutionHandler(ver, data, fate, execution) ==
  LET executions == remoteExecutions("e1", execution)
      id == IF ver = "tags" THEN data.id.v ELSE data.executionId.v
      op == IF ver = "tags" THEN "getExecution" ELSE "waitForDone"
      calls == << RemoteCall(op, << >>, id) >>
  IN IF fate # "ok" \/ id \notin ExecutionIds
       THEN Threw(IF fate = "value" THEN RemoteValue ELSE RemoteError, calls)
     ELSE IF ver = "tags"
       THEN Returned(getExecution(id, executions[id]), calls)
       ELSE Returned(executionResult(id, executions), calls)

\* JSON.parse(text): the value a text denotes, or a SyntaxError
JSONparse(text) ==
  CASE text = "{\"x\":1}" -> [ok |-> TRUE, value |-> Obj("{x:1}")]
    [] text = "{}" -> [ok |-> TRUE, value |-> Obj("{}")]
    [] text = "1" -> [ok |-> TRUE, value |-> Num("1")]
    [] OTHER -> [ok |-> FALSE, value |-> Undef]

\* parameters that are submitted as they were sent
params_KeepsText(parameters) == [ok |-> TRUE, value |-> parameters]

\* `params` of the execute_process handlers: a string is parsed as JSON,
\* any other value is taken as it is
params(parameters) ==
  IF parameters.t = "string" THEN JSONparse(parameters.v)
  ELSE [ok |-> TRUE, value |-> parameters]

\* the handlers of execute_process_async and execute_process_sync; no
\* request of the model sets initiatedBy or settings
executeProcessHandler(case, data, fate, eid) ==
  LET parsed == params(data.parameters)
      submit ==
        [ RemoteCall(case.op, data.identifier.v, "") EXCEPT
            !.parameters = parsed.value,
            !.options = SubmitOptions(data.tag, data.comment, Undef) ]
  IN IF ~parsed.ok
       THEN Threw([ isError |-> TRUE,
                    message |->
                      "Invalid JSON string for parameters: SyntaxError",
                    stack |-> "Error: Invalid JSON string for parameters" ],
                  << >>)
     ELSE IF fate # "ok" THEN Threw(thrownBy(fate), << submit >>)
     ELSE IF case.op = "executeProcessAsync"
       THEN Returned([executionId |-> Str(eid)], << submit >>)
       ELSE Returned([result |-> Str(case.op)], << submit >>)

\* the handler of any other case: one remote operation, or a plain throw
builtinHandler(case, data, fate) ==
  IF case.op = "-" THEN Threw(NotAvailableError, << >>)
  ELSE IF fate # "ok"
    THEN Threw(thrownBy(fate), << RemoteCall(case.op, << >>, "") >>)
    ELSE Returned([result |-> Str(case.op)],
                  << RemoteCall(case.op, << >>, "") >>)

\* ------------------------------------------------------------ dispatcher
McpError(code) ==
  [kind |-> "McpError", code |-> code, isError |-> FALSE, content |-> << >>]

\* an envelope that is flagged as soon as the payload has an error in it
Envelope_FlagsErrorPayload(isError, value) ==
  [ kind |-> "envelope", code |-> "-",
    isError |-> isError \/ ("error" \in DOMAIN value /\ truthy(value.error)),
    content |-> << [type |-> "text", text |-> JSONstringify(value)] >> ]

\* the envelope handleToolRequest returns
Envelope(isError, value) ==
  [ kind |-> "envelope", code |-> "-", isError |-> isError,
    content |-> << [type |-> "text", text |-> JSONstringify(value)] >> ]

\* what the CallTool handler does with one request: the response, the
\* remote calls issued, and whether the handler body ran and threw
Refused(code) ==
  [ response |-> McpError(code), remoteCalls |-> << >>,
    handlerRan |-> FALSE, thrown |-> NoError ]

\* a dispatcher that reports the stack of what the handler threw
handleToolRequest_ReportsStack(schema, args, outcome) ==
  IF ~safeParse(schema, args)
    THEN Refused("InvalidParams")
    ELSE IF outcome.threw
      THEN [ response |-> Envelope(TRUE, [error |-> Str(outcome.error.stack)]),
             remoteCalls |-> outcome.remoteCalls,
             handlerRan |-> TRUE, thrown |-> outcome.error ]
      ELSE [ response |-> Envelope(FALSE, outcome.result),
             remoteCalls |-> outcome.remoteCalls,
             handlerRan |-> TRUE, thrown |-> NoError ]

\* handleToolRequest: parse, run the handler, wrap what it returns or throws
handleToolRequest(schema, args, outcome) ==
  IF ~safeParse(schema, args)
    THEN Refused("InvalidParams")
    ELSE IF outcome.threw
      THEN LET errorMessage == IF outcome.error.isError
                                 THEN outcome.error.message
                                 ELSE "Unknown error occurred"
           IN [ response |-> Envelope(TRUE, [error |-> Str(errorMessage)]),
                remoteCalls |-> outcome.remoteCalls,
                handlerRan |-> TRUE, thrown |-> outcome.error ]
      ELSE [ response |-> Envelope(FALSE, outcome.result),
             remoteCalls |-> outcome.remoteCalls,
             handlerRan |-> TRUE, thrown |-> NoError ]

\* a gate that never refuses run_code
runCodeDisabled_Never(ver, tl, disabled) == FALSE

\* run_code is refused when its group is not selected (tags server) or when
\* the flag disables it (flag server)
runCodeDisabled(ver, tl, disabled) ==
  IF ver = "tags" THEN RUN_CODE_TOOL_TAG \notin tl ELSE disabled

\* the route a name takes through the CallTool handler
routeOf(ver, n) ==
  IF StartsWith(n, RUN_PROCESS_TOOL_NAME_PREFIX(ver)) THEN "process"
  ELSE IF n \in caseNames(ver) THEN "builtin"
  ELSE "none"

\* the CallTool request handler
dispatch(ver, tl, disabled, cleanup, procs, n, args, fate, eid, execution) ==
  LET route == routeOf(ver, n)
      processId == ReplaceFirst(n, RUN_PROCESS_TOOL_NAME_PREFIX(ver))
      case == caseOf(ver, n)
  IN IF route = "process"
       THEN handleToolRequest(RunProcessSchema, args,
              processHandler(procs, processId, args, fate, eid, execution))
     ELSE IF route = "builtin"
       THEN IF n = runCodeToolNames.runCode
              THEN IF runCodeDisabled(ver, tl, disabled)
                     THEN Refused("MethodNotFound")
                     ELSE handleToolRequest(RunCodeSchema, args,
                            runCodeHandler(args, cleanup, fate, execution))
            ELSE IF n = getExecutionToolNames.getExecution
              THEN handleToolRequest(case.schema, args,
                     getExecutionHandler(ver, args, fate, execution))
            ELSE IF n \in { processesToolNames.executeProcessAsync,
                            processesToolNames.executeProcessSync }
              THEN handleToolRequest(case.schema, args,
                     executeProcessHandler(case, args, fate, eid))
              ELSE handleToolRequest(case.schema, args,
                     builtinHandler(case, args, fate))
     ELSE Refused("MethodNotFound")

\* names a client asks for: the process tools of the catalog it was given,
\* some built-in names, an unknown name, and names made of the prefix and
\* an identifier that is in no catalog
RequestNames ==
  {t.name : t \in {u \in Range(catalog) : u.process # << >>}}
  \cup { runCodeToolNames.runCode, variablesToolNames.getVariables,
         schedulesToolNames.updateSchedule, modulesToolNames.getModuleVersions,
         executionsToolNames.getExecution, envVarsToolNames.set,
         <<"n","o","p","e">>,
         RUN_PROCESS_TOOL_NAME_PREFIX(version) \o <<"n","o","p","e">>,
         RUN_PROCESS_TOOL_NAME_PREFIX(version) \o ProcessId("3") }

NoCall ==
  [ name |-> << >>, args |-> Args([f \in {} |-> Undef]), route |-> "none",
    executionId |-> "-", execution |-> PlainExecution,
    response |-> [kind |-> "none", code |-> "-", isError |-> FALSE,
                  content |-> << >>],
    remoteCalls |-> << >>, handlerRan |-> FALSE, thrown |-> NoError ]

\* A call-tool request, with a name of `names`, arguments of `pool` and a
\* remote that runs or holds an execution of `executions`.  It is taken when
\* the previous one has been answered.  The client has listed the tools
\* before it calls one; a listing changes nothing in the server, so a call
\* before any listing is handled alike.  The remote assigns an execution id
\* to a process submission only.
CallToolOf(names, pool, executions) ==
  /\ connected
  /\ listed
  /\ call = NoCall
  /\ \E n \in names, args \in pool, fate \in Fates, execution \in executions :
       \E eid \in IF routeOf(version, n) = "process" THEN ExecutionIds
                                                     ELSE {"e1"} :
         LET done == dispatch(version, tools, disableRunCodeTool,
                              runCodeCleanup, processes, n, args, fate, eid,
                              execution)
         IN call' = [ name |-> n, args |-> args,
                      route |-> routeOf(version, n),
                      executionId |-> eid, execution |-> execution,
                      response |-> done.response,
                      remoteCalls |-> done.remoteCalls,
                      handlerRan |-> done.handlerRan,
                      thrown |-> done.thrown ]
  /\ UNCHANGED << config, startup, remote, listing, runs >>

\* a call-tool request about no execution in particular
CallTool == CallToolOf(RequestNames, ArgsPool, {PlainExecution})

\* ---------------------------------------------------------- construction
\* tool.trim(): the item without the blanks around it
trim(item) == Item(0, item.text)

\* main() of the stdio entry point: the tools option is the list of the
\* trimmed items of YEPCODE_MCP_TOOLS, undefined when the variable is absent
\* or empty
main(env) ==
  IF env.present /\ env.value # << >>
    THEN [present |-> TRUE,
          value |-> {trim(env.value[i]).text : i \in DOMAIN env.value}]
    ELSE [present |-> FALSE, value |-> {}]

\* the constructor's `tools = DEFAULT_TOOL_TAGS` default
constructorTools(option) ==
  IF option.present THEN option.value ELSE DEFAULT_TOOL_TAGS

\* main(): runCodeCleanup is false unless YEPCODE_MCP_OPTIONS is set and one
\* of its comma-separated items is the token; the items are not trimmed
mainRunCodeCleanup(env) ==
  /\ env.present
  /\ env.value # << >>
  /\ \E i \in DOMAIN env.value :
       env.value[i] = Item(0, RUN_CODE_CLEANUP_OPTION)

\* a constructor that goes on without the clients
constructor_Swallows(ok) == [threw |-> FALSE, errors |-> << >>]

\* the constructor: when a client of the remote cannot be constructed it
\* logs and throws one McpError
constructor(ok) ==
  IF ok THEN [threw |-> FALSE, errors |-> << >>]
  ELSE [threw |-> TRUE, errors |-> << McpError("InternalError") >>]

\* main() of the stdio entry point: construct the server, then connect it
\* to the transport; what the constructor throws rejects main() before the
\* transport exists
StartStdioServer ==
  LET server == constructor(clientsOk)
  IN /\ ~connected
     /\ initErrors = << >>
     /\ initErrors' = initErrors \o server.errors
     /\ connected' = ~server.threw
     /\ UNCHANGED << config, remote, listing, call, runs >>

Init ==
  /\ version \in {"tags", "flag"}
  /\ envTools \in IF version = "tags"
                    THEN {[present |-> FALSE, value |-> << >>]}
                         \cup {[present |-> TRUE, value |-> v] : v \in EnvToolChoices}
                    ELSE {[present |-> FALSE, value |-> << >>]}
  /\ envOptions = [present |-> FALSE, value |-> << >>]
  /\ clientsOk \in BOOLEAN
  /\ tools = IF version = "tags" THEN constructorTools(main(envTools)) ELSE {}
  /\ runCodeCleanup = mainRunCodeCleanup(envOptions)
  /\ disableRunCodeTool \in IF version = "flag" THEN BOOLEAN ELSE {FALSE}
  /\ connected = FALSE
  /\ initErrors = << >>
  /\ processes \in RemoteListings
  /\ remotePageSize \in 1..MaxPageSize
  /\ pageFault = NoFault
  /\ rulesFetch = [js |-> "ok", py |-> "ok"]
  /\ sharedInputSchema = Parameters(ZodAny)
  /\ catalog = << >>
  /\ pagesRequested = << >>
  /\ listed = FALSE
  /\ listError = "none"
  /\ listingsRead = << >>
  /\ call = NoCall
  /\ runs = [c \in RunIds |-> NoRun]

\* the answer of the last call has been written to the transport
CallAnswered ==
  /\ call # NoCall
  /\ call' = NoCall
  /\ UNCHANGED << config, startup, remote, listing, runs >>

Next == StartStdioServer \/ ListTools \/ CallTool \/ CallAnswered

Spec == Init /\ [][Next]_vars

\* ------------------------------------------------- catalog builds alone
\* Catalog builds of the three generations, once serving, over processes that declare
\* parameter schemas, with a remote that may answer one page badly and
\* coding rules whose fetches may raise.
InitListing ==
  /\ version \in {"tags", "flag", "registry"}
  /\ envTools \in IF version = "tags"
                    THEN { [present |-> FALSE, value |-> << >>],
                           [present |-> TRUE,
                            value |-> << Item(0, RUN_CODE_TOOL_TAG),
                                         Item(1, API_TOOL_TAG) >>] }
                    ELSE {[present |-> FALSE, value |-> << >>]}
  /\ envOptions = [present |-> FALSE, value |-> << >>]
  /\ clientsOk = TRUE
  /\ tools = IF version = "tags" THEN constructorTools(main(envTools)) ELSE {}
  /\ runCodeCleanup = mainRunCodeCleanup(envOptions)
  /\ disableRunCodeTool \in IF version = "flag" THEN BOOLEAN ELSE {FALSE}
  /\ connected = TRUE
  /\ initErrors = << >>
  /\ processes \in SchemaListings
  /\ remotePageSize \in 1..MaxPageSize
  /\ pageFault \in PageFaults
  /\ rulesFetch \in [js : FetchFates, py : FetchFates]
  /\ sharedInputSchema = Parameters(ZodAny)
  /\ catalog = << >>
  /\ pagesRequested = << >>
  /\ listed = FALSE
  /\ listError = "none"
  /\ listingsRead = << >>
  /\ call = NoCall
  /\ runs = [c \in RunIds |-> NoRun]

NextListing == ListTools \/ RegisterAndListTools

SpecListing == InitListing /\ [][NextListing]_vars

\* ------------------------------------------- listings that change
\* The remote's listing changes between list-tools requests: processes are
\* created and deleted, tags are put on them and taken off.
\* listings of the second and the third process of the pool
RelistListings ==
  { PoolListing(K, tg, [i \in 1..Len(ProcessPool) |-> JsonUndefined], 1) :
      K \in {S \in SUBSET {2, 3} : Cardinality(S) <= MaxProcs},
      tg \in { g \in [1..Len(ProcessPool) -> TagChoices] :
                 \A i \in DOMAIN g : i \notin {2, 3} => g[i] = {} } }

\* the remote's listing becomes another one
RemoteChanges ==
  /\ processes' \in RelistListings \ {processes}
  /\ UNCHANGED << remotePageSize, pageFault, rulesFetch >>
  /\ UNCHANGED << config, startup, listing, call, runs >>

InitRelist ==
  /\ version \in {"tags", "flag"}
  /\ envTools = [present |-> FALSE, value |-> << >>]
  /\ envOptions = [present |-> FALSE, value |-> << >>]
  /\ clientsOk = TRUE
  /\ tools = IF version = "tags" THEN constructorTools(main(envTools)) ELSE {}
  /\ runCodeCleanup = mainRunCodeCleanup(envOptions)
  /\ disableRunCodeTool = FALSE
  /\ connected = TRUE
  /\ initErrors = << >>
  /\ processes \in RelistListings
  /\ remotePageSize \in 1..MaxPageSize
  /\ pageFault = NoFault
  /\ rulesFetch = [js |-> "ok", py |-> "ok"]
  /\ sharedInputSchema = Parameters(ZodAny)
  /\ catalog = << >>
  /\ pagesRequested = << >>
  /\ listed = FALSE
  /\ listError = "none"
  /\ listingsRead = << >>
  /\ call = NoCall
  /\ runs = [c \in RunIds |-> NoRun]

NextRelist == ListTools \/ RemoteChanges

SpecRelist == InitRelist /\ [][NextRelist]_vars

\* ---------------------------------------------------- calls that execute
\* Calls of run_code, of a process tool and of get_execution against a
\* remote that runs or holds one execution, under every value of
\* YEPCODE_MCP_OPTIONS.
\* names of a process tool behind the prefix, get_execution, and a name
\* behind the prefix that no process has
ExecRequestNames ==
  { RUN_PROCESS_TOOL_NAME_PREFIX(version) \o p.slug : p \in Range(processes) }
  \cup { RUN_PROCESS_TOOL_NAME_PREFIX(version) \o p.id : p \in Range(processes) }
  \cup { getExecutionToolNames.getExecution,
         RUN_PROCESS_TOOL_NAME_PREFIX(version) \o <<"n","o","p","e">> }

ExecArgsPool ==
  { Args([f \in {} |-> Undef]),
    Args([id |-> Str("e1")]),
    Args([executionId |-> Str("e1")]),
    Args([synchronousExecution |-> Bool("false")]),
    Args([synchronousExecution |-> Bool("true")]) }

InitExec ==
  /\ version \in {"tags", "flag"}
  /\ envTools \in IF version = "tags"
                    THEN { [present |-> FALSE, value |-> << >>],
                           [present |-> TRUE,
                            value |-> << Item(0, RUN_CODE_TOOL_TAG),
                                         Item(1, API_TOOL_TAG),
                                         Item(1, RUN_PROCESS_TOOL_TAG) >>] }
                    ELSE {[present |-> FALSE, value |-> << >>]}
  /\ envOptions \in {[present |-> FALSE, value |-> << >>]}
                     \cup {[present |-> TRUE, value |-> v] : v \in EnvOptionChoices}
  /\ clientsOk = TRUE
  /\ tools = IF version = "tags" THEN constructorTools(main(envTools)) ELSE {}
  /\ runCodeCleanup = mainRunCodeCleanup(envOptions)
  /\ disableRunCodeTool = FALSE
  /\ connected = FALSE
  /\ initErrors = << >>
  /\ processes =
       PoolListing({3}, [i \in 1..Len(ProcessPool) |-> {RUN_PROCESS_TOOL_TAG}],
                   [i \in 1..Len(ProcessPool) |-> SchemaX], 1)
  /\ remotePageSize \in 1..MaxPageSize
  /\ pageFault = NoFault
  /\ rulesFetch = [js |-> "ok", py |-> "ok"]
  /\ sharedInputSchema = Parameters(ZodAny)
  /\ catalog = << >>
  /\ pagesRequested = << >>
  /\ listed = FALSE
  /\ listError = "none"
  /\ listingsRead = << >>
  /\ call = NoCall
  /\ runs = [c \in RunIds |-> NoRun]

\* the options of a process tool call that carry a tag and a comment
OptionsTagComment == Obj("{tag: v2, comment: nightly}")

\* a request that carries parameters: a process tool or execute_process_*,
\* with parameters as a JSON text, as a text that is not JSON, or as an
\* object, and with a tag and a comment where the tool takes them
CallWithParameters ==
  CallToolOf(
    ExecRequestNames \cup { processesToolNames.executeProcessAsync,
                            processesToolNames.executeProcessSync },
    { Args([identifier |-> Str(ProcessId("3")),
            parameters |-> Str("{\"x\":1}")]),
      Args([identifier |-> Str(ProcessId("3")), parameters |-> Str("{x")]),
      Args([identifier |-> Str(ProcessId("3")), parameters |-> Obj("{x:1}"),
            tag |-> Str("v2"), comment |-> Str("nightly")]),
      Args([identifier |-> Str(ProcessId("3"))]),
      Args([parameters |-> Obj("{}")]),
      Args([parameters |-> Obj("{x:1}"), options |-> OptionsTagComment]),
      Args([parameters |-> Obj("{x:1}")]) },
    {PlainExecution})

\* a request of a tool whose definition lists required fields or values
CallAdvertised ==
  CallToolOf(
    {d.name : d \in Range(inputSchemas)},
    { Args([f \in {} |-> Undef]),
      Args([status |-> Str("FINISHED")]),
      Args([status |-> Str("QUEUED")]),
      Args([id |-> Str("e1")]),
      Args([identifier |-> Str(ProcessId("3"))]),
      Args([identifier |-> Str(ProcessId("3")), type |-> Str("PERIODIC")]) },
    {PlainExecution})

\* a run_code request; a run ends with onFinish or with onError
CallRunCode ==
  CallToolOf({runCodeToolNames.runCode},
    { Args([code |-> Str("return 1"), options |-> Obj("{}")]),
      Args([code |-> Str("return 1"), options |-> OptionsRemoveOnDone]),
      Args([code |-> Str("return 1")]) },
    { e \in Executions : e.status \in {"FINISHED", "ERROR"} /\ e.stage = 2 })

\* a request to a process tool or to get_execution
CallExecutionTool == CallToolOf(ExecRequestNames, ExecArgsPool, Executions)

NextExec ==
  StartStdioServer \/ ListTools \/ CallRunCode \/ CallExecutionTool
    \/ CallWithParameters \/ CallAdvertised \/ CallAnswered

SpecExec == InitExec /\ [][NextExec]_vars

\* ------------------------------------------- run_code calls in flight
\* Two run_code calls on a server that is serving, of any generation, with
\* the events of their executions delivered in any interleaving.
InitRuns ==
  /\ version \in {"tags", "flag", "registry"}
  /\ envTools = [present |-> FALSE, value |-> << >>]
  /\ envOptions = [present |-> FALSE, value |-> << >>]
  /\ clientsOk = TRUE
  /\ tools = IF version = "tags" THEN constructorTools(main(envTools)) ELSE {}
  /\ runCodeCleanup = mainRunCodeCleanup(envOptions)
  /\ disableRunCodeTool = FALSE
  /\ connected = TRUE
  /\ initErrors = << >>
  /\ processes = << >>
  /\ remotePageSize = 1
  /\ pageFault = NoFault
  /\ rulesFetch = [js |-> "ok", py |-> "ok"]
  /\ sharedInputSchema = Parameters(ZodAny)
  /\ catalog = << >>
  /\ pagesRequested = << >>
  /\ listed = FALSE
  /\ listError = "none"
  /\ listingsRead = << >>
  /\ call = NoCall
  /\ runs = [c \in RunIds |-> NoRun]

NextRuns ==
  \E c \in RunIds : StartRunCode(c) \/ DeliverEvent(c) \/ ReturnRunCode(c)

SpecRuns == InitRuns /\ [][NextRuns]_vars

\* =================================================================== claims
\* names of the tools of the last catalog
CatalogNames == {t.name : t \in Range(catalog)}

\* the process-derived tools of the last catalog
ProcessToolsListed == {t \in Range(catalog) : t.process # << >>}

RefusedAs(code) ==
  /\ call.response.kind = "McpError"
  /\ call.response.code = code
  /\ ~call.handlerRan
  /\ call.remoteCalls = << >>

\* C1: every process-derived tool of the catalog can be called by its name:
\* with valid arguments the call reaches the process execution handler and
\* submits an execution of the process the tool was derived from, named by
\* its slug or its id.
C1_ListedProcessToolIsCallable ==
  \A t \in ProcessToolsListed :
    (call.name = t.name /\ safeParse(RunProcessSchema, call.args)) =>
      /\ call.route = "process"
      /\ call.response.code # "MethodNotFound"
      /\ call.remoteCalls # << >>
      /\ call.remoteCalls[1].op = "executeProcessAsync"
      /\ \E p \in Range(processes) :
           /\ p.id = t.process
           /\ call.remoteCalls[1].target \in {p.id, p.slug}

\* C2: a call whose name is no tool of the current catalog is refused with
\* method-not-found, without an envelope and without any remote call.
C2_UnknownNameIsMethodNotFound ==
  (call # NoCall /\ call.name \notin CatalogNames) => RefusedAs("MethodNotFound")

\* the schema the CallTool handler validates the last call against
validatorOfCall ==
  IF call.route = "process" THEN RunProcessSchema
  ELSE caseOf(version, call.name).schema

\* the run_code group is switched off by the configuration
RunCodeGroupOff ==
  \/ version = "tags" /\ RUN_CODE_TOOL_TAG \notin tools
  \/ version = "flag" /\ disableRunCodeTool

\* the last call reached the validation of its arguments
CallValidated ==
  \/ call.route = "process"
  \/ /\ call.route = "builtin"
     /\ ~(call.name = runCodeToolNames.runCode /\ RunCodeGroupOff)

\* a required field of the validator that the last call did not send
OmitsRequired ==
  \E f \in DOMAIN validatorOfCall :
    validatorOfCall[f].required /\ call.args[f] = Undef

C4_HandlerErrorIsEnvelope ==
  (call.handlerRan /\ call.thrown # NoError) =>
    /\ call.response.kind = "envelope"
    /\ call.response.isError
    /\ Len(call.response.content) = 1
    /\ call.response.content[1].type = "text"
    /\ call.response.content[1].text =
         JSONstringify([error |-> Str(IF call.thrown.isError
                                        THEN call.thrown.message
                                        ELSE "Unknown error occurred")])
    /\ call.thrown.isError =>
         call.response.content[1].text.json.error # Str(call.thrown.stack)

\* C4 witness: a handler whose remote call rejected with an Error
C4_Witness ==
  /\ call.handlerRan
  /\ call.thrown = RemoteError
  /\ call.remoteCalls # << >>
  /\ call.response.isError

\* C5: one catalog never holds two tools of the same name.
C5_NoDuplicateNames ==
  \A i, j \in DOMAIN catalog :
    i # j => catalog[i].name # catalog[j].name

Eligible(p) ==
  IF version = "tags" THEN p.tags \cap tools # {}
  ELSE RUN_PROCESS_TOOL_TAG \in p.tags

\* the name built from the slug of a process
SlugBasedName(p) ==
  IF version = "tags" THEN p.slug
  ELSE RUN_PROCESS_TOOL_NAME_PREFIX(version) \o p.slug

C7_NameIsSlugOrIdFallback ==
  listed =>
    \A p \in Range(processes) :
      Eligible(p) =>
        /\ \E t \in ProcessToolsListed : t.process = p.id
        /\ \A t \in ProcessToolsListed :
             t.process = p.id =>
               t.name = IF Len(SlugBasedName(p)) <= 60
                          THEN SlugBasedName(p)
                          ELSE RUN_PROCESS_TOOL_NAME_PREFIX(version) \o p.id

\* C7 witness: one catalog exposes a process under a slug-based name of
\* exactly 60 characters and another under the id fallback
C7_Witness ==
  /\ listed
  /\ \E p, q \in Range(processes) :
       /\ Eligible(p) /\ Eligible(q)
       /\ Len(SlugBasedName(p)) = 60
       /\ Len(SlugBasedName(q)) = 61
       /\ \E t \in ProcessToolsListed :
            t.process = p.id /\ t.name = SlugBasedName(p)
       /\ \E t \in ProcessToolsListed :
            /\ t.process = q.id
            /\ t.name = RUN_PROCESS_TOOL_NAME_PREFIX(version) \o q.id

\* the names of the built-in tool groups of the tags server
AllBuiltinGroups ==
  storageToolDefinitions \o variablesToolDefinitions
    \o schedulesToolDefinitions \o processesToolDefinitions
    \o executionsToolDefinitions \o modulesToolDefinitions
    \o runCodeToolDefinitions([js |-> "ok", py |-> "ok"]).tools

\* C8: without YEPCODE_MCP_TOOLS the server lists every built-in tool group
\* and no process-derived tool, whatever the tags of the remote processes.
C8_DefaultIsAllBuiltinsNoProcessTools ==
  (version = "tags" /\ ~envTools.present /\ listed) =>
    /\ \A t \in Range(AllBuiltinGroups) : t.name \in CatalogNames
    /\ ProcessToolsListed = {}

\* C9: with the run_code group disabled, run_code is in no catalog and a
\* call named run_code raises method-not-found before its arguments are
\* validated and without any remote call.
C9_DisabledRunCodeIsGone ==
  RunCodeGroupOff =>
    /\ runCodeToolNames.runCode \notin CatalogNames
    /\ call.name = runCodeToolNames.runCode => RefusedAs("MethodNotFound")

\* C9 witness: run_code called with arguments that would not parse while
\* the group is disabled and the catalog has been listed
C9_Witness ==
  /\ RunCodeGroupOff
  /\ listed
  /\ call.name = runCodeToolNames.runCode
  /\ ~safeParse(RunCodeSchema, call.args)
  /\ call.response = McpError("MethodNotFound")

\* every built-in tool name: those of a tool definition and those with a
\* case label
BuiltinNames ==
  caseNames(version)
    \cup {t.name : t \in Range(AllBuiltinGroups \o envVarsToolDefinitions
                                 \o fileToolDefinitions
                                 \o getExecutionToolDefinitions)}

\* C10: a built-in tool name is dispatched to a handler exactly when the
\* catalog lists it.
C10_ListedIffCallable ==
  (listed /\ call # NoCall /\ call.name \in BuiltinNames) =>
    (call.response.code # "MethodNotFound" <=> call.name \in CatalogNames)

DeclaresParameters(p) ==
  p.parametersSchema.t = "object" /\ p.parametersSchema.keys # {}

\* C12: in a catalog built from a listing of several processes, the tool of
\* every eligible process has the `parameters` sub-schema the process
\* declares, or no `parameters` entry when it declares none, whatever the
\* other processes of the listing declare.
C12_ParametersAreTheProcessesOwn ==
  (listed /\ pageFault = NoFault) =>
    \A p \in Range(processes) :
      Eligible(p) =>
        \E t \in ProcessToolsListed :
          /\ t.process = p.id
          /\ t.parameters = IF DeclaresParameters(p)
                              THEN Parameters(p.parametersSchema)
                              ELSE NoParameters

\* C17: when the remote answers a page with an absent response, a response
\* without data or an empty page, the loop stops at that page and the
\* list-tools request completes.
C17_BadPageEndsTheLoop ==
  (pageFault # NoFault /\ pageFault.page \in Range(pagesRequested)) =>
    /\ listError = "none"
    /\ listed
    /\ pagesRequested[Len(pagesRequested)] = pageFault.page

\* one of the fetches of the coding rules raises
RulesFetchRaises == rulesFetch.js = "raises" \/ rulesFetch.py = "raises"

\* C19: when a fetch of the coding rules raises, the failure is not raised
\* to the caller of list-tools, and the catalog returned holds run_code
\* with an empty coding-rules section.
C19_RulesFetchFailureIsNotFatal ==
  (RulesFetchRaises /\ ~RunCodeGroupOff /\ version \in {"tags", "flag"}) =>
    /\ listError # "FetchError"
    /\ listed =>
         \E t \in Range(catalog) :
           t.name = runCodeToolNames.runCode /\ t.codingRules = ""

\* C19 witness: a catalog returned although the second fetch raised
C19_Witness ==
  /\ rulesFetch = [js |-> "ok", py |-> "raises"]
  /\ listed
  /\ \E t \in Range(catalog) :
       t.name = runCodeToolNames.runCode /\ t.codingRules = ""

\* C20: if the clients of the remote cannot be constructed, the constructor
\* raises one initialization error, once, and the process never serves: the
\* transport is never connected and no list-tools or call-tool request is
\* handled.
C20_FailedInitNeverServes ==
  ~clientsOk =>
    /\ ~connected
    /\ Len(initErrors) <= 1
    /\ \A i \in DOMAIN initErrors : initErrors[i] = McpError("InternalError")
    /\ ~ENABLED StartStdioServer => Len(initErrors) = 1
    /\ ~listed /\ listError = "none" /\ catalog = << >>
    /\ call = NoCall

\* the constructor has failed
C20_Witness ==
  ~clientsOk /\ initErrors = << McpError("InternalError") >> /\ ~connected

\* the payload of the answer, as its JSON text carries it
Payload == call.response.content[1].text.json

\* the handler of the call ran and returned
HandlerReturned == call.handlerRan /\ call.thrown = NoError

RunCodeReturned ==
  call.name = runCodeToolNames.runCode /\ HandlerReturned

\* C13: a run_code call whose execution emits the log lines L1..Ln and then
\* finishes with return value V answers with `logs` = [L1..Ln] in that order,
\* `returnValue` = V and no `error` key.
C13_FinishedRunReportsLogsAndValue ==
  (RunCodeReturned /\ call.execution.status = "FINISHED") =>
    /\ "logs" \in DOMAIN Payload
    /\ Payload.logs = Arr(call.execution.logs)
    /\ call.execution.returnValue # Undef =>
         /\ "returnValue" \in DOMAIN Payload
         /\ Payload.returnValue = call.execution.returnValue
    /\ "error" \notin DOMAIN Payload

\* a run that logged L2 then L1 and returned 0
C13_Witness ==
  /\ RunCodeReturned
  /\ call.execution.status = "FINISHED"
  /\ call.execution.logs = << Str("L2"), Str("L1") >>
  /\ call.execution.returnValue = Num("0")

C15_GetExecutionReportsTerminal ==
  (call.name = getExecutionToolNames.getExecution /\ HandlerReturned) =>
    /\ "status" \in DOMAIN Payload
    /\ Payload.status.v \in {"FINISHED", "KILLED", "REJECTED", "ERROR"}
    /\ Payload.status = Str(call.execution.status)
    /\ "timeline" \in DOMAIN Payload
    /\ Payload.timeline = Arr(waitForDone(call.execution).timeline)
    /\ "logs" \in DOMAIN Payload => Payload.logs = Arr(call.execution.logs)
    /\ call.execution.returnValue # Undef =>
         /\ "returnValue" \in DOMAIN Payload
         /\ Payload.returnValue = call.execution.returnValue

\* the remote calls of the last request that are of one operation
CallsOf(op) == {i \in DOMAIN call.remoteCalls : call.remoteCalls[i].op = op}

\* C16: a process tool call submits the execution to the remote once and
\* first; asynchronous, it answers {executionId} and never waits;
\* synchronous or unsaid, it waits after the submission, on the executionId
\* the submission returned, and answers what the wait resolved to.
C16_SubmitOnceThenWaitUnlessAsync ==
  (call.route = "process" /\ call.handlerRan) =>
    /\ call.remoteCalls # << >>
    /\ CallsOf("executeProcessAsync") = {1}
    /\ call.thrown # NoError => call.remoteCalls[1].executionId = ""
    /\ HandlerReturned =>
         IF call.args.synchronousExecution = Bool("false")
           THEN /\ Payload = [executionId |-> Str(call.executionId)]
                /\ CallsOf("waitForDone") = {}
           ELSE /\ CallsOf("waitForDone") = {2}
                /\ Len(call.remoteCalls) = 2
                /\ call.remoteCalls[2].executionId = call.executionId
                /\ call.response =
                     Envelope(FALSE,
                       executionResult(call.executionId,
                         remoteExecutions(call.executionId, call.execution)))

\* an asynchronous call answered with the id the remote assigned
C16_Witness ==
  /\ call.route = "process"
  /\ HandlerReturned
  /\ call.args.synchronousExecution = Bool("false")
  /\ call.executionId = "e2"
  /\ Payload = [executionId |-> Str("e2")]

\* the token is one of the items of YEPCODE_MCP_OPTIONS
CleanupTokenPresent ==
  /\ envOptions.present
  /\ \E i \in DOMAIN envOptions.value :
       envOptions.value[i].text = RUN_CODE_CLEANUP_OPTION

\* C18: with YEPCODE_MCP_OPTIONS absent every run_code submission asks the
\* remote to remove the source after the run; with the runCodeCleanup token
\* in the options the source is kept.  (Requests that set removeOnDone
\* themselves are left aside.)
C18_CleanupUnlessTokenPresent ==
  ( /\ call.name = runCodeToolNames.runCode
    /\ call.remoteCalls # << >>
    /\ call.args.options # OptionsRemoveOnDone ) =>
    /\ ~envOptions.present => call.remoteCalls[1].removeOnDone = "true"
    /\ CleanupTokenPresent => call.remoteCalls[1].removeOnDone = "false"

\* what the remote answers to the request of one page in the last build
ResponseTo(page) ==
  getProcesses(processes, remotePageSize, page, limit,
               IF version = "tags" THEN [present |-> TRUE, value |-> tools]
                                   ELSE [present |-> FALSE, value |-> {}],
               pageFault)

\* the processes behind the process tools of the catalog, in catalog order
CatalogProcessIds ==
  LET derived == SelectSeq(catalog, LAMBDA t : t.process # << >>)
  IN [i \in DOMAIN derived |-> derived[i].process]

\* the processes that are exposed, in the order the remote lists them
EligibleIds ==
  LET exposed == SelectSeq(processes, Eligible)
  IN [i \in DOMAIN exposed |-> exposed[i].id]

\* C28: one catalog build asks for the pages 0, 1, 2, ... in that order, each
\* once, and for no page after the first response without a next page; the
\* process tools are listed in the order the processes were returned, after
\* the built-in tools.
C28_PagesInOrderToolsInOrder ==
  /\ \A i \in DOMAIN pagesRequested :
       /\ pagesRequested[i] = i - 1
       /\ i < Len(pagesRequested) => ResponseTo(i - 1).hasNextPage
  /\ listed =>
       \A i, j \in DOMAIN catalog :
         (i < j /\ catalog[i].process # << >>) => catalog[j].process # << >>
  /\ (listed /\ pageFault = NoFault) => CatalogProcessIds = EligibleIds

\* a build that took two pages and lists a built-in tool and two process
\* tools
C28_Witness ==
  /\ listed
  /\ pagesRequested = << 0, 1 >>
  /\ Len(CatalogProcessIds) = 2
  /\ catalog[1].process = << >>

\* the answer of the last call is what executionResult built
ResolverAnswered ==
  /\ HandlerReturned
  /\ \/ call.route = "process"
          /\ call.args.synchronousExecution # Bool("false")
     \/ version = "flag" /\ call.name = getExecutionToolNames.getExecution

\* the execution the resolver waited for
ResolvedExecution ==
  remoteExecutions(call.executionId, call.execution)[call.executionId]

\* C27: the result built by the resolver has the `returnValue` key whenever
\* the terminal execution has a return value, 0, false and "" included, the
\* `error` key whenever it has an error, and always executionId, logs,
\* processId, status and timeline.
C27_ResolverKeepsFalsyReturnValue ==
  ResolverAnswered =>
    /\ {"executionId", "logs", "processId", "status", "timeline"}
         \subseteq DOMAIN Payload
    /\ ResolvedExecution.returnValue # Undef =>
         /\ "returnValue" \in DOMAIN Payload
         /\ Payload.returnValue = ResolvedExecution.returnValue
    /\ ResolvedExecution.error # Undef =>
         /\ "error" \in DOMAIN Payload
         /\ Payload.error = ResolvedExecution.error

\* C26: the envelope's isError is true exactly when the handler raised; a
\* run_code call whose execution reports an error through onError answers
\* with isError false and the message as the `error` field of the payload,
\* next to the logs.
C26_IsErrorIffHandlerRaised ==
  call.handlerRan =>
    /\ call.response.kind = "envelope"
    /\ call.response.isError <=> call.thrown # NoError
    /\ (RunCodeReturned /\ call.execution.status = "ERROR") =>
         /\ ~call.response.isError
         /\ {"error", "logs"} \subseteq DOMAIN Payload
         /\ Payload.error = call.execution.error

\* a run_code call answered for an execution that failed after one log line
C26_Witness ==
  /\ RunCodeReturned
  /\ call.execution.status = "ERROR"
  /\ call.execution.logs = << Str("L1") >>
  /\ ~call.response.isError

\* the events of its execution a call has been given so far
DeliveredTo(c) ==
  SubSeq(eventsOf(runs[c].execution), 1, runs[c].delivered)

\* the terminal event of its execution has been given to the call
TerminalDelivered(c) ==
  runs[c].delivered = Len(eventsOf(runs[c].execution))

\* C24: with two run_code calls in flight and their callbacks interleaved in
\* any order, what a call has collected is made of the events of its own
\* execution only, in arrival order, whatever the other call does, and its
\* result is built from that: once its terminal event is in, exactly the
\* logs, return value and error of its own execution.
C24_RunsDoNotMix ==
  \A c \in RunIds :
    /\ runs[c].phase # "idle" =>
         runs[c].collected = deliver(DeliveredTo(c), 1, NoneCollected)
    /\ runs[c].phase = "returned" =>
         /\ runs[c].result.json.logs =
              Arr(SubSeq(runs[c].execution.logs, 1,
                         Len(runs[c].result.json.logs.v)))
         /\ "returnValue" \in DOMAIN runs[c].result.json =>
              runs[c].result.json.returnValue = runs[c].execution.returnValue
         /\ "error" \in DOMAIN runs[c].result.json =>
              runs[c].result.json.error = runs[c].execution.error
         /\ TerminalDelivered(c) =>
              /\ runs[c].result.json.logs = Arr(runs[c].execution.logs)
              /\ ("returnValue" \in DOMAIN runs[c].result.json)
                   <=> (runs[c].execution.returnValue # Undef)
              /\ ("error" \in DOMAIN runs[c].result.json)
                   <=> (runs[c].execution.error # Undef)

\* both calls were running with part of their logs in, and both have
\* returned, one with a value and one with an error
C24_Witness ==
  /\ \A c \in RunIds : runs[c].phase = "returned" /\ TerminalDelivered(c)
  /\ runs[1].execution.logs = << Str("L1"), Str("L2") >>
  /\ runs[2].execution.logs = << Str("L3") >>
  /\ runs[1].execution.status = "FINISHED"
  /\ runs[2].execution.status = "ERROR"

\* C25: a run_code call never returns before the terminal event of its
\* execution has been delivered: every log emitted before it is in the
\* returned logs and the returnValue or error returned is the one the
\* terminal event carried.
C25_ReturnsAfterTerminalEvent ==
  \A c \in RunIds :
    runs[c].phase = "returned" =>
      /\ TerminalDelivered(c)
      /\ runs[c].result =
           JSONstringify(
             [ logs |-> Arr(runs[c].execution.logs),
               returnValue |-> runs[c].execution.returnValue,
               error |-> runs[c].execution.error ])

\* the handler of execute_process_async or execute_process_sync ran
ExecuteProcessRan ==
  /\ call.name \in { processesToolNames.executeProcessAsync,
                     processesToolNames.executeProcessSync }
  /\ call.handlerRan

\* C30: for execute_process_async and execute_process_sync, parameters that
\* are a string that is not JSON are answered with an envelope with isError
\* true and the remote execute operation is not invoked; parameters that are
\* a JSON text are submitted as the value the text denotes, and parameters
\* that are an object are submitted unchanged.
C30_StringParametersAreParsed ==
  ExecuteProcessRan =>
    /\ call.args.parameters = Str("{x") =>
         /\ call.response.kind = "envelope"
         /\ call.response.isError
         /\ call.remoteCalls = << >>
    /\ call.args.parameters = Str("{\"x\":1}") =>
         /\ Len(call.remoteCalls) = 1
         /\ call.remoteCalls[1].parameters = Obj("{x:1}")
    /\ call.args.parameters.t = "object" =>
         /\ Len(call.remoteCalls) = 1
         /\ call.remoteCalls[1].parameters = call.args.parameters

\* execute_process_sync was called with a text that is not JSON
C30_Witness ==
  /\ ExecuteProcessRan
  /\ call.name = processesToolNames.executeProcessSync
  /\ call.args.parameters = Str("{x")
  /\ call.response.isError
  /\ call.remoteCalls = << >>

\* the handler of a process tool ran and submitted
ProcessSubmitted ==
  call.route = "process" /\ call.handlerRan /\ call.remoteCalls # << >>

\* C22: a process tool call with arguments {parameters, options: {tag,
\* comment}} submits to executeProcessAsync the given parameters and, as the
\* tag and the comment of the submission, the caller's tag and comment, at
\* the top level of the submission and under no other key.
C22_TagAndCommentAreSubmitted ==
  (ProcessSubmitted /\ call.args.options = OptionsTagComment) =>
    /\ call.remoteCalls[1].op = "executeProcessAsync"
    /\ call.remoteCalls[1].parameters = call.args.parameters
    /\ call.remoteCalls[1].options.tag = Str("v2")
    /\ call.remoteCalls[1].options.comment = Str("nightly")
    /\ call.remoteCalls[1].options.options = Undef

\* the tools of the catalog derived from the process the call names
CalledProcessTools ==
  { t \in Range(catalog) :
      /\ t.process # << >>
      /\ \E q \in Range(processes) :
           /\ q.id = t.process
           /\ ReplaceFirst(call.name, RUN_PROCESS_TOOL_NAME_PREFIX(version))
                \in {q.id, q.slug} }

\* C21: a call of a process tool advertised with the process's parameters
\* schema, which requires the field x, whose parameters lack that field is
\* refused with invalid-params and submits nothing.
C21_ParametersSchemaIsEnforced ==
  \A t \in CalledProcessTools :
    ( /\ call.route = "process"
      /\ t.parameters = Parameters(SchemaX)
      /\ call.args.parameters = Obj("{}") )
    => RefusedAs("InvalidParams")

\* the ids of the processes of a listing that are exposed, in listing order
ExposedIdsOf(procs) ==
  LET exposed == SelectSeq(procs, Eligible)
  IN [i \in DOMAIN exposed |-> exposed[i].id]

\* the listing the last list-tools request read
LastRead == listingsRead[Len(listingsRead)]

\* C23: each list-tools request builds the catalog from the remote listing
\* as it is when the request is made: the process tools of the catalog are
\* those of the processes that qualify in the listing the request read, one
\* each, whatever an earlier request had listed, and nothing of an earlier
\* catalog is in it.
C23_CatalogRebuiltPerRequest ==
  listed =>
    /\ CatalogProcessIds = ExposedIdsOf(LastRead)
    /\ Len(catalog) =
         Len(builtinTools(version, tools, disableRunCodeTool, rulesFetch).tools)
           + Len(ExposedIdsOf(LastRead))

\* two requests read different listings, and a process listed by the first
\* is not in the second catalog while another one is
C23_Witness ==
  /\ listed
  /\ Len(listingsRead) = 2
  /\ processes = LastRead
  /\ \E i \in DOMAIN ExposedIdsOf(listingsRead[1]) :
       ExposedIdsOf(listingsRead[1])[i] \notin Range(CatalogProcessIds)
  /\ \E i \in DOMAIN CatalogProcessIds :
       CatalogProcessIds[i] \notin Range(ExposedIdsOf(listingsRead[1]))

\* the tool definition of the tool the call names
AdvertisedOfCall ==
  CHOOSE d \in Range(inputSchemas) : d.name = call.name

\* the call names a built-in tool whose definition is in inputSchemas, on
\* the server that lists these definitions
AdvertisedCalled ==
  /\ version = "tags"
  /\ call.route = "builtin"
  /\ \E d \in Range(inputSchemas) : d.name = call.name

\* the arguments have the required fields of the definition and a status it
\* lists
SatisfiesAdvertised ==
  /\ \A f \in AdvertisedOfCall.required : call.args[f] # Undef
  /\ call.args.status # Undef => call.args.status.v \in AdvertisedOfCall.status

\* C29: the advertised input schema of a built-in tool and the validator of
\* its call agree: arguments with the required fields and a listed status
\* are not refused as invalid, and arguments that lack a field the
\* definition marks required are refused with invalid-params.
C29_AdvertisedAgreesWithValidator ==
  AdvertisedCalled =>
    /\ SatisfiesAdvertised => call.response # McpError("InvalidParams")
    /\ (\E f \in AdvertisedOfCall.required : call.args[f] = Undef) =>
         RefusedAs("InvalidParams")

====
